---- MODULE Spec2Model ----
(***************************************************************************)
(* The real-time chat client of the ElectroMart console: the useSocket     *)
(* hook (connection state, message log, pending-message tracker, offline   *)
(* queue, throttle guard) and the useMessageCorrelation projection.        *)
(*                                                                         *)
(* React state is held in the variables named as in the hook.  A handler   *)
(* applies its setState calls in the order it issues them (the updater     *)
(* queue).  What a handler READS through a closure (isConnected, isSending *)
(* in sendMessage / cancelMessage) or through a ref mirror                 *)
(* (pendingMessagesRef, offlineQueueRef) is the value of the last render:  *)
(* Render commits the state to the closures and runs the mirror effects.   *)
(* Message timestamps and queued_at are never read by the hook and are not *)
(* carried.                                                                *)
(***************************************************************************)
EXTENDS Integers, Sequences, FiniteSets, TLC

\* ------------------------------------------------------------------ bounds
MaxSends == 2
MaxLog == 3
MaxTicks == 2
FewTicks == 1
TickMs == 1000
MaxAttempt == 2
MaxCancels == 1
MaxSockets == 2
MaxWire == 5
MaxGets == 3
LogSends == 1
ShortLog == 2
MaxEmits == 2
CorrMaxLog == 5
CorrMaxPending == 2
MaxColorNumber == 13

\* ------------------------------------------------------- program constants
DUPLICATE_SEND_THROTTLE_MS == 2000
SENDING_STATE_DURATION_MS == 1000
ERROR_AUTO_CLEAR_MS == 2000

COLORS == <<"#1976d2", "#9c27b0", "#2e7d32", "#ed6c02", "#d32f2f", "#00796b">>

\* message_id?: string.  Temporary ids made by sendMessage are 1, 2, ...;
\* ServerId is an id issued by the remote peer that is no temporary id;
\* NoId is an absent message_id.
NoId == 0
ServerId == 99

\* ------------------------------------------------------------ text helpers
\* A text is a sequence of characters; the alphabet has one letter in both
\* cases and the blank.
IsBlank(ch) == ch = " "

RECURSIVE trimStart(_)
trimStart(s) ==
  IF s = <<>> THEN <<>>
  ELSE IF IsBlank(Head(s)) THEN trimStart(Tail(s)) ELSE s

RECURSIVE trimEnd(_)
trimEnd(s) ==
  IF s = <<>> THEN <<>>
  ELSE IF IsBlank(s[Len(s)]) THEN trimEnd(SubSeq(s, 1, Len(s) - 1)) ELSE s

trim(s) == trimEnd(trimStart(s))

lowerChar(ch) == IF ch = "A" THEN "a" ELSE IF ch = "B" THEN "b" ELSE ch

toLowerCase(s) == [i \in 1..Len(s) |-> lowerChar(s[i])]

\* message.trim().toLowerCase()
normalize(s) == toLowerCase(trim(s))

\* The texts a caller submits.
Contents == { <<"a">>, <<"A", " ">>, <<"b">>, <<" ">> }

\* Two texts that differ after normalization.
PlainContents == { <<"a">>, <<"b">> }

\* ------------------------------------------------------------ correlation
Key(message, index) ==
  IF message.message_id # NoId THEN <<"id", message.message_id>>
  ELSE <<"index", index>>

NoKey == <<"none", 0>>

getCorrelationColor(number) == COLORS[((number - 1) % Len(COLORS)) + 1]

MapSet(map, k, v) ==
  [x \in (DOMAIN map) \cup {k} |-> IF x = k THEN v ELSE map[x]]

EmptyMap == [x \in {} |-> 0]

UserRecord(n) ==
  [correlationNumber |-> n, color |-> getCorrelationColor(n),
   isPending |-> FALSE, isUserMessage |-> TRUE, replyToMessageId |-> NoKey]

ReplyRecord(q) ==
  [correlationNumber |-> q.correlationNumber,
   color |-> getCorrelationColor(q.correlationNumber),
   isPending |-> FALSE, isUserMessage |-> FALSE, replyToMessageId |-> q.id]

PendingRecord(n) ==
  [correlationNumber |-> n, color |-> getCorrelationColor(n),
   isPending |-> TRUE, isUserMessage |-> TRUE, replyToMessageId |-> NoKey]

\* First pass: number the user messages.
RECURSIVE firstPass(_, _, _, _)
firstPass(msgs, i, map, counter) ==
  IF i > Len(msgs) THEN [map |-> map, userMessageCounter |-> counter]
  ELSE IF msgs[i].role = "user"
       THEN firstPass(msgs, i + 1,
                      MapSet(map, Key(msgs[i], i - 1), UserRecord(counter + 1)),
                      counter + 1)
       ELSE firstPass(msgs, i + 1, map, counter)

\* -- variants of the second pass used to test the claims' formulas
RECURSIVE secondPassLifo(_, _, _, _)
\* binds a reply to the newest unanswered question
secondPassLifo(msgs, i, map, unansweredQuestions) ==
  IF i > Len(msgs) THEN map
  ELSE IF msgs[i].role = "user"
       THEN LET messageId == Key(msgs[i], i - 1)
            IN  IF messageId \in DOMAIN map
                THEN secondPassLifo(msgs, i + 1, map,
                       Append(unansweredQuestions,
                              [id |-> messageId,
                               correlationNumber |-> map[messageId].correlationNumber]))
                ELSE secondPassLifo(msgs, i + 1, map, unansweredQuestions)
       ELSE IF msgs[i].role = "assistant" /\ msgs[i].agent # "system"
            THEN IF Len(unansweredQuestions) > 0
                 THEN secondPassLifo(msgs, i + 1,
                        MapSet(map, Key(msgs[i], i - 1),
                               ReplyRecord(unansweredQuestions[Len(unansweredQuestions)])),
                        SubSeq(unansweredQuestions, 1, Len(unansweredQuestions) - 1))
                 ELSE secondPassLifo(msgs, i + 1, map, unansweredQuestions)
            ELSE secondPassLifo(msgs, i + 1, map, unansweredQuestions)

RECURSIVE secondPassNoShift(_, _, _, _)
\* binds a reply to the oldest question without removing it
secondPassNoShift(msgs, i, map, unansweredQuestions) ==
  IF i > Len(msgs) THEN map
  ELSE IF msgs[i].role = "user"
       THEN LET messageId == Key(msgs[i], i - 1)
            IN  IF messageId \in DOMAIN map
                THEN secondPassNoShift(msgs, i + 1, map,
                       Append(unansweredQuestions,
                              [id |-> messageId,
                               correlationNumber |-> map[messageId].correlationNumber]))
                ELSE secondPassNoShift(msgs, i + 1, map, unansweredQuestions)
       ELSE IF msgs[i].role = "assistant" /\ msgs[i].agent # "system"
            THEN IF Len(unansweredQuestions) > 0
                 THEN secondPassNoShift(msgs, i + 1,
                        MapSet(map, Key(msgs[i], i - 1),
                               ReplyRecord(Head(unansweredQuestions))),
                        unansweredQuestions)
                 ELSE secondPassNoShift(msgs, i + 1, map, unansweredQuestions)
            ELSE secondPassNoShift(msgs, i + 1, map, unansweredQuestions)

RECURSIVE secondPassNoticePops(_, _, _, _)
\* lets every assistant message, system notices included, take a question
secondPassNoticePops(msgs, i, map, unansweredQuestions) ==
  IF i > Len(msgs) THEN map
  ELSE IF msgs[i].role = "user"
       THEN LET messageId == Key(msgs[i], i - 1)
            IN  IF messageId \in DOMAIN map
                THEN secondPassNoticePops(msgs, i + 1, map,
                       Append(unansweredQuestions,
                              [id |-> messageId,
                               correlationNumber |-> map[messageId].correlationNumber]))
                ELSE secondPassNoticePops(msgs, i + 1, map, unansweredQuestions)
       ELSE IF msgs[i].role = "assistant"
            THEN IF Len(unansweredQuestions) > 0
                 THEN secondPassNoticePops(msgs, i + 1,
                        MapSet(map, Key(msgs[i], i - 1),
                               ReplyRecord(Head(unansweredQuestions))),
                        Tail(unansweredQuestions))
                 ELSE secondPassNoticePops(msgs, i + 1, map, unansweredQuestions)
            ELSE secondPassNoticePops(msgs, i + 1, map, unansweredQuestions)

\* Second pass: FIFO matching of replies to unanswered questions.
RECURSIVE secondPass(_, _, _, _)
secondPass(msgs, i, map, unansweredQuestions) ==
  IF i > Len(msgs) THEN map
  ELSE IF msgs[i].role = "user"
       THEN LET messageId == Key(msgs[i], i - 1)
            IN  IF messageId \in DOMAIN map
                THEN secondPass(msgs, i + 1, map,
                       Append(unansweredQuestions,
                              [id |-> messageId,
                               correlationNumber |-> map[messageId].correlationNumber]))
                ELSE secondPass(msgs, i + 1, map, unansweredQuestions)
       ELSE IF msgs[i].role = "assistant" /\ msgs[i].agent # "system"
            THEN IF Len(unansweredQuestions) > 0
                 THEN secondPass(msgs, i + 1,
                        MapSet(map, Key(msgs[i], i - 1),
                               ReplyRecord(Head(unansweredQuestions))),
                        Tail(unansweredQuestions))
                 ELSE secondPass(msgs, i + 1, map, unansweredQuestions)
            ELSE secondPass(msgs, i + 1, map, unansweredQuestions)

\* -- variant used to test the claims' formulas: the third pass gives every
\* pending id a pending record, also an id that has a record
RECURSIVE thirdPassOverwrites(_, _, _, _)
thirdPassOverwrites(pending, j, map, pendingCounter) ==
  IF j > Len(pending) THEN map
  ELSE thirdPassOverwrites(pending, j + 1,
                           MapSet(map, <<"id", pending[j].id>>,
                                  PendingRecord(pendingCounter + 1)),
                           pendingCounter + 1)

\* Third pass: pending ids that are no key yet get trailing numbers.
RECURSIVE thirdPass(_, _, _, _)
thirdPass(pending, j, map, pendingCounter) ==
  IF j > Len(pending) THEN map
  ELSE LET messageId == <<"id", pending[j].id>>
       IN  IF messageId \notin DOMAIN map
           THEN thirdPass(pending, j + 1,
                          MapSet(map, messageId, PendingRecord(pendingCounter + 1)),
                          pendingCounter + 1)
           ELSE thirdPass(pending, j + 1, map, pendingCounter)

useMessageCorrelation(msgs, pending) ==
  LET p1 == firstPass(msgs, 1, EmptyMap, 0)
      p2 == secondPass(msgs, 1, p1.map, <<>>)
  IN  thirdPass(pending, 1, p2, p1.userMessageCounter)


\* -------------------------------------------------------------------- state
VARIABLES
  isConnected,        \* useState: 'connect' / 'disconnect' seen last
  isReconnecting,     \* useState
  reconnectAttempt,   \* useState
  messages,           \* useState: the ordered message log
  isTyping,           \* useState: global typing indicator
  currentAgent,       \* useState
  error,              \* useState: transient error, <<>> is null
  pendingMessages,    \* useState: Map in insertion order, as a sequence of entries
  offlineQueue,       \* useState
  isSending,          \* useState
  lastSentMessage,    \* useRef
  lastSentTime,       \* useRef
  pendingMessagesRef, \* useRef mirror: keys of the map of the last render
  offlineQueueRef,    \* useRef mirror: the queue of the last render
  closure,            \* isConnected / isSending captured by the callbacks of the last render
  emitted,            \* the calls of socket.emit, in order
  now,                \* Date.now(), ms since the hook was mounted
  nextId,             \* number of temporary ids made so far, plus one
  sendingTimers,      \* due times of the pending setIsSending(false) timers
  errorTimers,        \* due times of the pending setError(null) timers
  socket,             \* lib/socket.ts: the module's socket, NoSocket is null
  sessionId,          \* lib/socket.ts: the retained session id, NoSession is null
  sockets,            \* lib/socket.ts: per socket made by io(), its 'connected' handlers and whether disconnect() was called
  wire,               \* what passed between the sockets and the remote peer, in order
  returned            \* what the calls of getSocket returned, in order

vars ==
  <<isConnected, isReconnecting, reconnectAttempt, messages, isTyping,
    currentAgent, error, pendingMessages, offlineQueue, isSending,
    lastSentMessage, lastSentTime, pendingMessagesRef, offlineQueueRef,
    closure, emitted, now, nextId, sendingTimers, errorTimers,
    socket, sessionId, sockets, wire, returned>>

hookVars ==
  <<isConnected, isReconnecting, reconnectAttempt, messages, isTyping,
    currentAgent, error, pendingMessages, offlineQueue, isSending,
    lastSentMessage, lastSentTime, pendingMessagesRef, offlineQueueRef,
    closure, emitted, now, nextId, sendingTimers, errorTimers>>

libVars == <<socket, sessionId, sockets, wire, returned>>

NoSocket == 0
NoSession == "null"
SessionIds == {"s1", "s2"}

connVars == <<isConnected, isReconnecting, reconnectAttempt>>
throttleVars == <<lastSentMessage, lastSentTime>>
mirrorVars == <<pendingMessagesRef, offlineQueueRef, closure>>
timerVars == <<sendingTimers, errorTimers>>

Null == <<"null">>
NoError == <<>>
NoAgent == "none"

ReplyAgents == {"sales", "support"}

\* ----------------------------------------------------------------- messages
UserMessage(content, id) ==
  [role |-> "user", content |-> content, agent |-> NoAgent,
   mtype |-> "none", message_id |-> id]

SystemMessage(content, mtype, id) ==
  [role |-> "assistant", content |-> content, agent |-> "system",
   mtype |-> mtype, message_id |-> id]

ReplyMessage(content, agent, id) ==
  [role |-> "assistant", content |-> content, agent |-> agent,
   mtype |-> "none", message_id |-> id]

ERR_CONNECTION_LOST == <<"Connection lost. Attempting to reconnect...">>
ERR_CANNOT_RECONNECT == <<"Cannot reconnect to server. Please refresh the page.">>
ERR_SEND_TOO_FAST == <<"Please wait before sending the same message again">>
ERR_OFFLINE == <<"You are offline. Messages will be sent when connection is restored.">>
ERR_ALREADY_PROCESSING == <<"This message is already being processed.">>
ERR_RECONNECTING(attempt) == <<"Reconnecting...", "attempt", ToString(attempt)>>
ServerErrorText == <<"server error">>
ServerCancelText == <<"server text">>
ReplyText == <<"reply">>

\* ------------------------------------------------------------ pending map
PendingIds(p) == [j \in 1..Len(p) |-> p[j].id]

PendingHas(p, id) == \E j \in 1..Len(p) : p[j].id = id

RECURSIVE SeqFilterOut(_, _)
\* the entries of p whose id differs from id, in order (Map.delete)
SeqFilterOut(p, id) ==
  IF p = <<>> THEN <<>>
  ELSE IF Head(p).id = id THEN SeqFilterOut(Tail(p), id)
       ELSE <<Head(p)>> \o SeqFilterOut(Tail(p), id)

MapDelete(p, id) == SeqFilterOut(p, id)

\* Map.set: a new key goes last, an existing key keeps its place
MapPut(p, entry) ==
  IF PendingHas(p, entry.id)
  THEN [j \in 1..Len(p) |-> IF p[j].id = entry.id THEN entry ELSE p[j]]
  ELSE Append(p, entry)

RECURSIVE removeMessage(_, _)
\* prev.filter((msg) => msg.message_id !== id)
removeMessage(msgs, id) ==
  IF msgs = <<>> THEN <<>>
  ELSE IF Head(msgs).message_id = id THEN removeMessage(Tail(msgs), id)
       ELSE <<Head(msgs)>> \o removeMessage(Tail(msgs), id)

\* ids an inbound event can carry: the temporary ids made so far, an id of
\* the remote peer's own, or none
IssuedIds == 1..(nextId - 1)
EventIds == IssuedIds \cup {NoId, ServerId}

\* --------------------------------------------------------------------- Init
Init ==
  /\ isConnected = FALSE
  /\ isReconnecting = FALSE
  /\ reconnectAttempt = 0
  /\ messages = <<>>
  /\ isTyping = FALSE
  /\ currentAgent = NoAgent
  /\ error = NoError
  /\ pendingMessages = <<>>
  /\ offlineQueue = <<>>
  /\ isSending = FALSE
  /\ lastSentMessage = Null
  /\ lastSentTime = 0
  /\ pendingMessagesRef = <<>>
  /\ offlineQueueRef = <<>>
  /\ closure = [isConnected |-> FALSE, isSending |-> FALSE]
  /\ emitted = <<>>
  /\ now = 0
  /\ nextId = 1
  /\ sendingTimers = {}
  /\ errorTimers = {}
  /\ socket = NoSocket
  /\ sessionId = NoSession
  /\ sockets = <<>>
  /\ wire = <<>>
  /\ returned = <<>>


\* ------------------------------------------------------------ user actions
\* -- variant of the throttle guard used to test the claims' formulas: the
\* cooldown is the sending window
isThrottledShort(normalizedMessage) ==
  /\ lastSentMessage = normalizedMessage
  /\ now - lastSentTime < SENDING_STATE_DURATION_MS

\* the throttle guard of sendMessage
isThrottled(normalizedMessage) ==
  /\ lastSentMessage = normalizedMessage
  /\ now - lastSentTime < DUPLICATE_SEND_THROTTLE_MS

\* the in-flight guard of sendMessage reads the callback's captured isSending
isAlreadySending == closure.isSending

\* the offline test of sendMessage and of the cancel callbacks reads the
\* callback's captured isConnected
notConnected == ~closure.isConnected

NewPendingEntry(message, id) ==
  [id |-> id, message |-> message, status |-> "sending", sent_at |-> now,
   is_typing |-> FALSE, queue_position |-> 0]

OfflineEntry(message, id) ==
  [message |-> message, type |-> "text", message_id |-> id]

EmitMessage(message, id) ==
  [event |-> "message", message |-> message, type |-> "text", message_id |-> id]

EmitCancel(id) ==
  [event |-> "cancel_message", message |-> <<>>, type |-> "none", message_id |-> id]

EmitCancelAll ==
  [event |-> "cancel_all_messages", message |-> <<>>, type |-> "none", message_id |-> NoId]

sendRejectedThrottle ==
  /\ error' = ERR_SEND_TOO_FAST
  /\ errorTimers' = errorTimers \cup {now + ERROR_AUTO_CLEAR_MS}
  /\ UNCHANGED <<libVars, connVars, messages, isTyping, currentAgent, pendingMessages,
                 offlineQueue, isSending, throttleVars, mirrorVars, emitted,
                 now, nextId, sendingTimers>>

sendOffline(message) ==
  /\ lastSentMessage' = normalize(message)
  /\ lastSentTime' = now
  /\ messages' = messages \o <<UserMessage(message, nextId),
                               SystemMessage(ERR_OFFLINE, "offline_queued", NoId)>>
  /\ error' = NoError
  /\ offlineQueue' = Append(offlineQueue, OfflineEntry(message, nextId))
  /\ isSending' = FALSE
  /\ nextId' = nextId + 1
  /\ UNCHANGED <<libVars, connVars, isTyping, currentAgent, pendingMessages, mirrorVars,
                 emitted, now, timerVars>>

sendConnected(message) ==
  /\ lastSentMessage' = normalize(message)
  /\ lastSentTime' = now
  /\ isSending' = TRUE
  /\ messages' = Append(messages, UserMessage(message, nextId))
  /\ error' = NoError
  /\ pendingMessages' = MapPut(pendingMessages, NewPendingEntry(message, nextId))
  /\ emitted' = Append(emitted, EmitMessage(message, nextId))
  /\ isTyping' = TRUE
  /\ sendingTimers' = sendingTimers \cup {now + SENDING_STATE_DURATION_MS}
  /\ nextId' = nextId + 1
  /\ UNCHANGED <<libVars, connVars, currentAgent, offlineQueue, mirrorVars, now, errorTimers>>

sendMessage(message) ==
  IF trim(message) = <<>> THEN UNCHANGED vars
  ELSE IF isThrottled(normalize(message)) THEN sendRejectedThrottle
  ELSE IF isAlreadySending THEN UNCHANGED vars
  ELSE IF notConnected THEN sendOffline(message)
  ELSE sendConnected(message)

\* -- variant used to test the claims' formulas: the history is cleared,
\* the pending set is kept
clearMessagesKeepsPending ==
  /\ messages' = <<>>
  /\ currentAgent' = NoAgent
  /\ error' = NoError
  /\ UNCHANGED <<libVars, connVars, isTyping, pendingMessages, offlineQueue, isSending,
                 throttleVars, mirrorVars, emitted, now, nextId, timerVars>>

clearMessages ==
  /\ messages' = <<>>
  /\ currentAgent' = NoAgent
  /\ error' = NoError
  /\ pendingMessages' = <<>>
  /\ UNCHANGED <<libVars, connVars, isTyping, offlineQueue, isSending, throttleVars,
                 mirrorVars, emitted, now, nextId, timerVars>>

NumCancels == Cardinality({k \in 1..Len(emitted) : emitted[k].event # "message"})

\* -- variant used to test the claims' formulas: the request also drops the
\* entry locally
cancelMessageDropsEntry(messageId) ==
  IF notConnected THEN UNCHANGED vars
  ELSE /\ emitted' = Append(emitted, EmitCancel(messageId))
       /\ pendingMessages' = MapDelete(pendingMessages, messageId)
       /\ UNCHANGED <<libVars, connVars, messages, isTyping, currentAgent, error,
                      offlineQueue, isSending, throttleVars,
                      mirrorVars, now, nextId, timerVars>>

cancelMessage(messageId) ==
  IF notConnected THEN UNCHANGED vars
  ELSE /\ emitted' = Append(emitted, EmitCancel(messageId))
       /\ UNCHANGED <<libVars, connVars, messages, isTyping, currentAgent, error,
                      pendingMessages, offlineQueue, isSending, throttleVars,
                      mirrorVars, now, nextId, timerVars>>

cancelAllMessages ==
  IF notConnected THEN UNCHANGED vars
  ELSE /\ emitted' = Append(emitted, EmitCancelAll)
       /\ UNCHANGED <<libVars, connVars, messages, isTyping, currentAgent, error,
                      pendingMessages, offlineQueue, isSending, throttleVars,
                      mirrorVars, now, nextId, timerVars>>

\* ------------------------------------------------------------------ timers
\* -- variant used to test the claims' formulas: the timer runs out and
\* leaves the sending flag set
sendingTimerFiresKeepsFlag ==
  \E d \in sendingTimers :
    /\ d <= now
    /\ sendingTimers' = sendingTimers \ {d}
    /\ UNCHANGED <<libVars, connVars, isSending, messages, isTyping, currentAgent, error,
                   pendingMessages, offlineQueue, throttleVars, mirrorVars,
                   emitted, now, nextId, errorTimers>>

\* setTimeout(() => setIsSending(false), SENDING_STATE_DURATION_MS)
sendingTimerFires ==
  \E d \in sendingTimers :
    /\ d <= now
    /\ sendingTimers' = sendingTimers \ {d}
    /\ isSending' = FALSE
    /\ UNCHANGED <<libVars, connVars, messages, isTyping, currentAgent, error,
                   pendingMessages, offlineQueue, throttleVars, mirrorVars,
                   emitted, now, nextId, errorTimers>>

\* setTimeout(() => setError(null), ERROR_AUTO_CLEAR_MS)
errorTimerFires ==
  \E d \in errorTimers :
    /\ d <= now
    /\ errorTimers' = errorTimers \ {d}
    /\ error' = NoError
    /\ UNCHANGED <<libVars, connVars, messages, isTyping, currentAgent, pendingMessages,
                   offlineQueue, isSending, throttleVars, mirrorVars, emitted,
                   now, nextId, sendingTimers>>

\* ------------------------------------------------------- render and clock
Stale ==
  \/ closure # [isConnected |-> isConnected, isSending |-> isSending]
  \/ pendingMessagesRef # PendingIds(pendingMessages)
  \/ offlineQueueRef # offlineQueue

\* A render: the callbacks are re-made over the current state and the
\* mirror effects copy the state to the refs.
Render ==
  /\ Stale
  /\ closure' = [isConnected |-> isConnected, isSending |-> isSending]
  /\ pendingMessagesRef' = PendingIds(pendingMessages)
  /\ offlineQueueRef' = offlineQueue
  /\ UNCHANGED <<libVars, connVars, messages, isTyping, currentAgent, error,
                 pendingMessages, offlineQueue, isSending, throttleVars,
                 emitted, now, nextId, timerVars>>

\* Time passes.  A due timer runs, and a scheduled render commits, before
\* the clock reaches the next tick.
Tick ==
  /\ ~Stale
  /\ \A d \in sendingTimers \cup errorTimers : d > now
  /\ now' = now + TickMs
  /\ UNCHANGED <<libVars, connVars, messages, isTyping, currentAgent, error,
                 pendingMessages, offlineQueue, isSending, throttleVars,
                 mirrorVars, emitted, nextId, timerVars>>


\* -------------------------------------------------------- connection events
\* what the 'connect' handler dispatches: every entry of the queue mirror
flushedEmits(queue) ==
  [k \in 1..Len(queue) |-> EmitMessage(queue[k].message, queue[k].message_id)]

ReconnectFlushNotice(count) ==
  SystemMessage(<<"Reconnected! Sending", ToString(count),
                  "message(s) from offline queue...">>, "reconnection", NoId)

\* -- variant used to test the claims' formulas: 'connect' leaves the
\* reconnecting flag and the attempt counter as they are
onConnectKeepsReconnecting ==
  /\ ~isConnected
  /\ isConnected' = TRUE
  /\ error' = NoError
  /\ IF Len(offlineQueueRef) > 0
     THEN /\ messages' = Append(messages, ReconnectFlushNotice(Len(offlineQueueRef)))
          /\ emitted' = emitted \o flushedEmits(offlineQueueRef)
          /\ offlineQueue' = <<>>
     ELSE UNCHANGED <<libVars, messages, emitted, offlineQueue>>
  /\ UNCHANGED <<libVars, isReconnecting, reconnectAttempt, isTyping, currentAgent, pendingMessages, isSending,
                 throttleVars, mirrorVars, now, nextId, timerVars>>

\* socket 'connect'; the transport alternates 'connect' and 'disconnect'
onConnect ==
  /\ ~isConnected
  /\ isConnected' = TRUE
  /\ isReconnecting' = FALSE
  /\ reconnectAttempt' = 0
  /\ error' = NoError
  /\ IF Len(offlineQueueRef) > 0
     THEN /\ messages' = Append(messages, ReconnectFlushNotice(Len(offlineQueueRef)))
          /\ emitted' = emitted \o flushedEmits(offlineQueueRef)
          /\ offlineQueue' = <<>>
     ELSE UNCHANGED <<libVars, messages, emitted, offlineQueue>>
  /\ UNCHANGED <<libVars, isTyping, currentAgent, pendingMessages, isSending,
                 throttleVars, mirrorVars, now, nextId, timerVars>>

\* -- variant used to test the claims' formulas: a disconnection drops the
\* pending entries
onDisconnectDropsPending ==
  /\ isConnected
  /\ isConnected' = FALSE
  /\ error' = ERR_CONNECTION_LOST
  /\ messages' = Append(messages, SystemMessage(ERR_CONNECTION_LOST, "disconnection", NoId))
  /\ pendingMessages' = <<>>
  /\ UNCHANGED <<libVars, isReconnecting, reconnectAttempt, isTyping, currentAgent,
                  offlineQueue, isSending, throttleVars,
                 mirrorVars, emitted, now, nextId, timerVars>>

\* socket 'disconnect'
onDisconnect ==
  /\ isConnected
  /\ isConnected' = FALSE
  /\ error' = ERR_CONNECTION_LOST
  /\ messages' = Append(messages, SystemMessage(ERR_CONNECTION_LOST, "disconnection", NoId))
  /\ UNCHANGED <<libVars, isReconnecting, reconnectAttempt, isTyping, currentAgent,
                 pendingMessages, offlineQueue, isSending, throttleVars,
                 mirrorVars, emitted, now, nextId, timerVars>>

ReconnectedNotice(attempt) ==
  SystemMessage(IF attempt > 1
                THEN <<"Reconnected successfully!", "after", ToString(attempt), "attempts">>
                ELSE <<"Reconnected successfully!", "">>,
                "reconnection", NoId)

\* -- variant used to test the claims' formulas: the counter is kept
onReconnectKeepsCounter(attempt) ==
  /\ ~isConnected
  /\ isReconnecting /\ attempt = reconnectAttempt
  /\ isReconnecting' = FALSE
  /\ messages' = Append(messages, ReconnectedNotice(attempt))
  /\ UNCHANGED <<libVars, isConnected, reconnectAttempt, isTyping, currentAgent,
                 error, pendingMessages, offlineQueue, isSending, throttleVars,
                 mirrorVars, emitted, now, nextId, timerVars>>

\* manager 'reconnect': raised when a reconnection attempt succeeded, while
\* the socket is still down, before its 'connect'
onReconnect(attempt) ==
  /\ ~isConnected
  /\ isReconnecting /\ attempt = reconnectAttempt
  /\ isReconnecting' = FALSE
  /\ reconnectAttempt' = 0
  /\ messages' = Append(messages, ReconnectedNotice(attempt))
  /\ UNCHANGED <<libVars, isConnected, isTyping, currentAgent, error, pendingMessages,
                 offlineQueue, isSending, throttleVars, mirrorVars, emitted,
                 now, nextId, timerVars>>

\* manager 'reconnect_attempt'
onReconnectAttempt(attempt) ==
  /\ ~isConnected
  /\ isReconnecting' = TRUE
  /\ reconnectAttempt' = attempt
  /\ error' = ERR_RECONNECTING(attempt)
  /\ UNCHANGED <<libVars, isConnected, messages, isTyping, currentAgent, pendingMessages,
                 offlineQueue, isSending, throttleVars, mirrorVars, emitted,
                 now, nextId, timerVars>>

\* manager 'reconnect_error'
onReconnectError ==
  /\ ~isConnected
  /\ error' = <<"Reconnection failed:", "timeout">>
  /\ UNCHANGED <<libVars, connVars, messages, isTyping, currentAgent, pendingMessages,
                 offlineQueue, isSending, throttleVars, mirrorVars, emitted,
                 now, nextId, timerVars>>

\* manager 'reconnect_failed'
onReconnectFailed ==
  /\ ~isConnected
  /\ isReconnecting' = FALSE
  /\ error' = ERR_CANNOT_RECONNECT
  /\ messages' = Append(messages, SystemMessage(ERR_CANNOT_RECONNECT, "reconnection_failed", NoId))
  /\ UNCHANGED <<libVars, isConnected, reconnectAttempt, isTyping, currentAgent,
                 pendingMessages, offlineQueue, isSending, throttleVars,
                 mirrorVars, emitted, now, nextId, timerVars>>

\* ----------------------------------------------------------- message events
\* setPendingMessages((prev) => { if (prev.size === 0) setIsTyping(false); return prev; })
stopTypingIfIdle(pending, typing) == IF Len(pending) = 0 THEN FALSE ELSE typing

\* -- variant used to test the claims' formulas: an acknowledgment for an
\* id without an entry makes one
onMessageQueuedUpserts(message_id, queue_position) ==
  /\ pendingMessages' =
       IF PendingHas(pendingMessages, message_id)
       THEN [j \in 1..Len(pendingMessages) |->
               IF pendingMessages[j].id = message_id
               THEN [pendingMessages[j] EXCEPT !.status = "queued",
                                               !.queue_position = queue_position]
               ELSE pendingMessages[j]]
       ELSE Append(pendingMessages,
                   [id |-> message_id, message |-> <<>>, status |-> "queued",
                    sent_at |-> now, is_typing |-> FALSE,
                    queue_position |-> queue_position])
  /\ UNCHANGED <<libVars, connVars, messages, isTyping, currentAgent, error, offlineQueue,
                 isSending, throttleVars, mirrorVars, emitted, now, nextId,
                 timerVars>>

\* 'message_queued'
onMessageQueued(message_id, queue_position) ==
  /\ pendingMessages' =
       [j \in 1..Len(pendingMessages) |->
          IF pendingMessages[j].id = message_id
          THEN [pendingMessages[j] EXCEPT !.status = "queued",
                                          !.queue_position = queue_position]
          ELSE pendingMessages[j]]
  /\ UNCHANGED <<libVars, connVars, messages, isTyping, currentAgent, error, offlineQueue,
                 isSending, throttleVars, mirrorVars, emitted, now, nextId,
                 timerVars>>

\* -- variant used to test the claims' formulas: the reply is put first
onResponseFirst(agent, message_id) ==
  /\ messages' = <<ReplyMessage(ReplyText, agent, message_id)>> \o messages
  /\ currentAgent' = agent
  /\ pendingMessages' = IF message_id # NoId THEN MapDelete(pendingMessages, message_id)
                        ELSE pendingMessages
  /\ isTyping' = stopTypingIfIdle(pendingMessages', isTyping)
  /\ UNCHANGED <<libVars, connVars, error, offlineQueue, isSending, throttleVars,
                 mirrorVars, emitted, now, nextId, timerVars>>

\* setMessages((prev) => [...prev, newMessage]) of 'response'
responseLog(log, agent, message_id) ==
  Append(log, ReplyMessage(ReplyText, agent, message_id))

\* 'response'
onResponse(agent, message_id) ==
  /\ messages' = responseLog(messages, agent, message_id)
  /\ currentAgent' = agent
  /\ pendingMessages' = IF message_id # NoId THEN MapDelete(pendingMessages, message_id)
                        ELSE pendingMessages
  /\ isTyping' = stopTypingIfIdle(pendingMessages', isTyping)
  /\ UNCHANGED <<libVars, connVars, error, offlineQueue, isSending, throttleVars,
                 mirrorVars, emitted, now, nextId, timerVars>>

\* -- variant used to test the claims' formulas: a typing event puts the
\* entry back to status sending
onTypingResetsStatus(is_typing, message_id) ==
  /\ pendingMessages' =
       IF message_id # NoId
       THEN [j \in 1..Len(pendingMessages) |->
               IF pendingMessages[j].id = message_id
               THEN [pendingMessages[j] EXCEPT !.is_typing = is_typing,
                                               !.status = "sending"]
               ELSE pendingMessages[j]]
       ELSE pendingMessages
  /\ isTyping' = (is_typing \/ Len(pendingMessagesRef) > 0)
  /\ UNCHANGED <<libVars, connVars, messages, currentAgent, error, offlineQueue, isSending,
                 throttleVars, mirrorVars, emitted, now, nextId, timerVars>>

\* 'typing'
onTyping(is_typing, message_id) ==
  /\ pendingMessages' =
       IF message_id # NoId
       THEN [j \in 1..Len(pendingMessages) |->
               IF pendingMessages[j].id = message_id
               THEN [pendingMessages[j] EXCEPT !.is_typing = is_typing]
               ELSE pendingMessages[j]]
       ELSE pendingMessages
  /\ isTyping' = (is_typing \/ Len(pendingMessagesRef) > 0)
  /\ UNCHANGED <<libVars, connVars, messages, currentAgent, error, offlineQueue, isSending,
                 throttleVars, mirrorVars, emitted, now, nextId, timerVars>>

\* -- variant used to test the claims' formulas: a hand-off appends its
\* notice and leaves the current agent
onAgentSwitchKeepsAgent(to_agent, message_id) ==
  /\ messages' = Append(messages,
                        SystemMessage(<<"Transferring you to our", to_agent, "specialist...">>,
                                      "agent_switch", message_id))
  /\ UNCHANGED <<libVars, connVars, isTyping, currentAgent, error, pendingMessages,
                 offlineQueue, isSending, throttleVars, mirrorVars, emitted, now, nextId,
                 timerVars>>

\* 'agent_switch'
onAgentSwitch(to_agent, message_id) ==
  /\ currentAgent' = to_agent
  /\ messages' = Append(messages,
                        SystemMessage(<<"Transferring you to our", to_agent, "specialist...">>,
                                      "agent_switch", message_id))
  /\ UNCHANGED <<libVars, connVars, isTyping, error, pendingMessages, offlineQueue,
                 isSending, throttleVars, mirrorVars, emitted, now, nextId,
                 timerVars>>

\* -- variant used to test the claims' formulas: an error tied to a
\* message resolves every entry
onErrorResolvesAll(message_id) ==
  /\ error' = ServerErrorText
  /\ pendingMessages' = IF message_id # NoId THEN <<>> ELSE pendingMessages
  /\ isTyping' = stopTypingIfIdle(pendingMessages', isTyping)
  /\ UNCHANGED <<libVars, connVars, messages, currentAgent, offlineQueue, isSending,
                 throttleVars, mirrorVars, emitted, now, nextId, timerVars>>

\* 'error'
onError(message_id) ==
  /\ error' = ServerErrorText
  /\ pendingMessages' = IF message_id # NoId THEN MapDelete(pendingMessages, message_id)
                        ELSE pendingMessages
  /\ isTyping' = stopTypingIfIdle(pendingMessages', isTyping)
  /\ UNCHANGED <<libVars, connVars, messages, currentAgent, offlineQueue, isSending,
                 throttleVars, mirrorVars, emitted, now, nextId, timerVars>>

\* -- variants used to test the claims' formulas
\* the confirmation resolves the entry and leaves the log alone
onMessageCancelledKeepsLog(message_id, success) ==
  /\ pendingMessages' = MapDelete(pendingMessages, message_id)
  /\ isTyping' = IF Len(pendingMessagesRef) <= 1 THEN FALSE ELSE isTyping
  /\ UNCHANGED <<libVars, connVars, messages, currentAgent, error, offlineQueue, isSending,
                 throttleVars, mirrorVars, emitted, now, nextId, timerVars>>

\* a confirmation with success = false is ignored
onMessageCancelledIfSuccess(message_id, success) ==
  IF success
  THEN /\ pendingMessages' = MapDelete(pendingMessages, message_id)
       /\ messages' = removeMessage(messages, message_id)
       /\ isTyping' = IF Len(pendingMessagesRef) <= 1 THEN FALSE ELSE isTyping
       /\ UNCHANGED <<libVars, connVars, currentAgent, error, offlineQueue, isSending,
                      throttleVars, mirrorVars, emitted, now, nextId, timerVars>>
  ELSE UNCHANGED vars

\* the confirmation drops the oldest entry, whatever its id
onMessageCancelledDropsOldest(message_id, success) ==
  /\ pendingMessages' = IF pendingMessages = <<>> THEN <<>> ELSE Tail(pendingMessages)
  /\ messages' = removeMessage(messages, message_id)
  /\ isTyping' = IF Len(pendingMessagesRef) <= 1 THEN FALSE ELSE isTyping
  /\ UNCHANGED <<libVars, connVars, currentAgent, error, offlineQueue, isSending,
                 throttleVars, mirrorVars, emitted, now, nextId, timerVars>>

\* the typing reset of 'message_cancelled' reads the mirror
cancelStopsTyping == Len(pendingMessagesRef) <= 1

\* 'message_cancelled'; the handler does not read data.success
onMessageCancelled(message_id, success) ==
  /\ pendingMessages' = MapDelete(pendingMessages, message_id)
  /\ messages' = removeMessage(messages, message_id)
  /\ isTyping' = IF cancelStopsTyping THEN FALSE ELSE isTyping
  /\ UNCHANGED <<libVars, connVars, currentAgent, error, offlineQueue, isSending,
                 throttleVars, mirrorVars, emitted, now, nextId, timerVars>>

CancelledNotice(cancelled_count, hasMessage) ==
  SystemMessage(IF hasMessage THEN ServerCancelText
                ELSE <<"Cancelled", ToString(cancelled_count), "pending message(s)">>,
                "cancellation", NoId)

\* -- variant used to test the claims' formulas: the typing indicator is
\* left as it is
onAllMessagesCancelledKeepsTyping(cancelled_count, hasMessage) ==
  /\ pendingMessages' = <<>>
  /\ messages' = Append(messages, CancelledNotice(cancelled_count, hasMessage))
  /\ UNCHANGED <<libVars, connVars, isTyping, currentAgent, error, offlineQueue, isSending,
                 throttleVars, mirrorVars, emitted, now, nextId, timerVars>>

\* 'all_messages_cancelled'
onAllMessagesCancelled(cancelled_count, hasMessage) ==
  /\ pendingMessages' = <<>>
  /\ isTyping' = FALSE
  /\ messages' = Append(messages, CancelledNotice(cancelled_count, hasMessage))
  /\ UNCHANGED <<libVars, connVars, currentAgent, error, offlineQueue, isSending,
                 throttleVars, mirrorVars, emitted, now, nextId, timerVars>>

\* -- variant used to test the claims' formulas: the duplicate notice also
\* drops what waits in the offline queue
onMessageDuplicateDropsQueue ==
  /\ messages' = Append(messages, SystemMessage(ERR_ALREADY_PROCESSING, "duplicate", NoId))
  /\ isSending' = FALSE
  /\ offlineQueue' = <<>>
  /\ UNCHANGED <<libVars, connVars, isTyping, currentAgent, error, pendingMessages,
                 throttleVars, mirrorVars, emitted, now, nextId, timerVars>>

\* 'message_duplicate'
onMessageDuplicate ==
  /\ messages' = Append(messages, SystemMessage(ERR_ALREADY_PROCESSING, "duplicate", NoId))
  /\ isSending' = FALSE
  /\ UNCHANGED <<libVars, connVars, isTyping, currentAgent, error, pendingMessages,
                 offlineQueue, throttleVars, mirrorVars, emitted, now, nextId,
                 timerVars>>


\* ------------------------------------------------------------ lib/socket.ts
\* io(...) followed by socket.on('connected', ...): a socket with one
\* handler that stores the session id
NewSocket == [connectedHandlers |-> 1, disconnected |-> FALSE]

\* -- variant used to test the claims' formulas: every call makes a socket
getSocketAlwaysNew ==
  /\ sockets' = Append(sockets, NewSocket)
  /\ socket' = Len(sockets) + 1
  /\ returned' = Append(returned, socket')
  /\ UNCHANGED <<sessionId, wire, hookVars>>

\* getSocket()
getSocket ==
  /\ IF socket = NoSocket
     THEN /\ sockets' = Append(sockets, NewSocket)
          /\ socket' = Len(sockets) + 1
     ELSE UNCHANGED <<socket, sockets>>
  /\ returned' = Append(returned, socket')
  /\ UNCHANGED <<sessionId, wire, hookVars>>

\* what the auth callback hands to cb: { session_id } or {}
authPayload == IF sessionId # NoSession THEN <<sessionId>> ELSE <<>>

WireEntry(kind, sock, payload) == [kind |-> kind, socket |-> sock, payload |-> payload]

\* The live socket opens a connection (the first one or a reconnection
\* attempt): the client calls the auth callback for the handshake.
authHandshake ==
  /\ socket # NoSocket
  /\ wire' = Append(wire, WireEntry("auth", socket, authPayload))
  /\ UNCHANGED <<socket, sessionId, sockets, returned, hookVars>>

\* 'connected' on the live socket, after a handshake of that socket: each
\* handler registered by getSocket stores the id
onConnected(session_id) ==
  /\ socket # NoSocket
  /\ \E k \in 1..Len(wire) : wire[k].kind = "auth" /\ wire[k].socket = socket
  /\ wire' = Append(wire, WireEntry("connected", socket, <<session_id>>))
  /\ sessionId' = IF sockets[socket].connectedHandlers > 0 THEN session_id ELSE sessionId
  /\ UNCHANGED <<socket, sockets, returned, hookVars>>

\* -- variant used to test the claims' formulas: the session id is kept
disconnectSocketKeepsSession ==
  IF socket # NoSocket
  THEN /\ sockets' = [sockets EXCEPT ![socket].disconnected = TRUE]
       /\ wire' = Append(wire, WireEntry("close", socket, <<>>))
       /\ socket' = NoSocket
       /\ UNCHANGED <<sessionId, returned, hookVars>>
  ELSE UNCHANGED vars

\* disconnectSocket()
disconnectSocket ==
  IF socket # NoSocket
  THEN /\ sockets' = [sockets EXCEPT ![socket].disconnected = TRUE]
       /\ wire' = Append(wire, WireEntry("close", socket, <<>>))
       /\ socket' = NoSocket
       /\ sessionId' = NoSession
       /\ UNCHANGED <<returned, hookVars>>
  ELSE UNCHANGED vars

\* getStoredSessionId()
getStoredSessionId == sessionId


\* ----------------------------------------------------------- specifications
\* The model's caps: how many messages are submitted, how long the log may
\* be when an inbound event appends to it, how far the clock runs.
IdsLeft == nextId <= MaxSends
LogRoom == Len(messages) < MaxLog
CancelsLeft == NumCancels < MaxCancels
ClockBelow(ticks) == now + TickMs <= ticks * TickMs

\* The whole program: every callback and every handler.
Next ==
  \/ IdsLeft /\ \E message \in Contents : sendMessage(message)
  \/ clearMessages
  \/ CancelsLeft /\ \E messageId \in IssuedIds : cancelMessage(messageId)
  \/ CancelsLeft /\ cancelAllMessages
  \/ sendingTimerFires
  \/ errorTimerFires
  \/ Render
  \/ ClockBelow(MaxTicks) /\ Tick
  \/ onConnect
  \/ LogRoom /\ onDisconnect
  \/ LogRoom /\ \E attempt \in 1..MaxAttempt : onReconnect(attempt)
  \/ \E attempt \in 1..MaxAttempt : onReconnectAttempt(attempt)
  \/ onReconnectError
  \/ LogRoom /\ onReconnectFailed
  \/ \E message_id \in EventIds \ {NoId}, queue_position \in 1..MaxSends :
       onMessageQueued(message_id, queue_position)
  \/ LogRoom /\ \E agent \in ReplyAgents, message_id \in EventIds :
       onResponse(agent, message_id)
  \/ \E is_typing \in BOOLEAN, message_id \in EventIds : onTyping(is_typing, message_id)
  \/ LogRoom /\ \E to_agent \in ReplyAgents, message_id \in EventIds :
       onAgentSwitch(to_agent, message_id)
  \/ \E message_id \in EventIds : onError(message_id)
  \/ \E message_id \in EventIds \ {NoId}, success \in BOOLEAN :
       onMessageCancelled(message_id, success)
  \/ LogRoom /\ \E cancelled_count \in 0..MaxSends, hasMessage \in BOOLEAN :
       onAllMessagesCancelled(cancelled_count, hasMessage)
  \/ LogRoom /\ onMessageDuplicate

Spec == Init /\ [][Next]_vars

\* ---------------------------------------------------------------- SpecCorr
\* useMessageCorrelation as a function of its inputs: the log and the
\* pending map are grown one entry at a time over every message a log can
\* hold (user messages as sendMessage makes them, replies and system
\* notices with or without a message_id).
hookVarsButLog ==
  <<connVars, isTyping, currentAgent, error, offlineQueue, isSending,
    throttleVars, mirrorVars, emitted, now, timerVars>>

corrAppendUser ==
  /\ Len(messages) < CorrMaxLog
  /\ messages' = Append(messages, UserMessage(<<"a">>, nextId))
  /\ nextId' = nextId + 1
  /\ UNCHANGED <<libVars, pendingMessages, hookVarsButLog>>

corrAppendReply(message_id) ==
  /\ Len(messages) < CorrMaxLog
  /\ messages' = Append(messages, ReplyMessage(ReplyText, "sales", message_id))
  /\ UNCHANGED <<libVars, pendingMessages, nextId, hookVarsButLog>>

corrAppendNotice(message_id) ==
  /\ Len(messages) < CorrMaxLog
  /\ messages' = Append(messages,
                        SystemMessage(<<"notice">>,
                                      IF message_id = NoId THEN "disconnection"
                                      ELSE "agent_switch", message_id))
  /\ UNCHANGED <<libVars, pendingMessages, nextId, hookVarsButLog>>

corrTrack(message_id) ==
  /\ Len(pendingMessages) < CorrMaxPending
  /\ pendingMessages' = MapPut(pendingMessages, NewPendingEntry(<<"a">>, message_id))
  /\ UNCHANGED <<libVars, messages, nextId, hookVarsButLog>>

NextCorr ==
  \/ corrAppendUser
  \/ \E message_id \in EventIds : corrAppendReply(message_id)
  \/ \E message_id \in EventIds : corrAppendNotice(message_id)
  \/ \E message_id \in (EventIds \ {NoId}) \cup {nextId} : corrTrack(message_id)

SpecCorr == Init /\ [][NextCorr]_vars

\* ------------------------------------------------ correlation: vocabulary
IsUser(m) == m.role = "user"
IsRealReply(m) == m.role = "assistant" /\ m.agent # "system"
IsNotice(m) == m.role = "assistant" /\ m.agent = "system"

Indices(log) == 1..Len(log)
UserIdx(log) == {i \in Indices(log) : IsUser(log[i])}
ReplyIdx(log) == {i \in Indices(log) : IsRealReply(log[i])}
KeyAt(log, i) == Key(log[i], i - 1)

\* the user message a message is bound to in the map: the reply-to link of
\* the record under its key, NoKey when there is none
BoundTo(map, k) ==
  IF k \in DOMAIN map /\ ~map[k].isUserMessage THEN map[k].replyToMessageId
  ELSE NoKey

RECURSIVE withoutNotices(_)
withoutNotices(log) ==
  IF log = <<>> THEN <<>>
  ELSE IF IsNotice(Head(log)) THEN withoutNotices(Tail(log))
       ELSE <<Head(log)>> \o withoutNotices(Tail(log))

\* the bindings of the real replies of a log, in log order
RECURSIVE bindings(_, _, _)
bindings(log, map, i) ==
  IF i > Len(log) THEN <<>>
  ELSE IF IsRealReply(log[i])
       THEN <<BoundTo(map, KeyAt(log, i))>> \o bindings(log, map, i + 1)
       ELSE bindings(log, map, i + 1)

Bindings(log) == bindings(log, useMessageCorrelation(log, <<>>), 1)

\* N user sends followed by N real replies in the same order: the k-th
\* reply answers the k-th send (it carries that send's id, or none)
SendsThenReplies(log, N) ==
  /\ Len(log) = 2 * N
  /\ \A k \in 1..N :
       /\ IsUser(log[k])
       /\ IsRealReply(log[N + k])
       /\ log[N + k].message_id \in {NoId, log[k].message_id}

\* C2: in a log of N sends followed by N replies in the same order, the
\* user messages are numbered 1..N, increasing in log order, and the k-th
\* reply has number k and is linked to the k-th user message.
C2_SameOrderBinding ==
  \A N \in 1..CorrMaxLog :
    SendsThenReplies(messages, N) =>
      LET map == useMessageCorrelation(messages, pendingMessages)
      IN  \A k \in 1..N :
            /\ KeyAt(messages, k) \in DOMAIN map
            /\ map[KeyAt(messages, k)].correlationNumber = k
            /\ \A j \in 1..N : j < k =>
                 map[KeyAt(messages, j)].correlationNumber
                   < map[KeyAt(messages, k)].correlationNumber
            /\ KeyAt(messages, N + k) \in DOMAIN map
            /\ map[KeyAt(messages, N + k)].correlationNumber = k
            /\ map[KeyAt(messages, N + k)].replyToMessageId = KeyAt(messages, k)

C2_Witness ==
  /\ SendsThenReplies(messages, 2)
  /\ messages[3].message_id = messages[1].message_id
  /\ messages[4].message_id = NoId

\* every real reply has a reply record linked to a user message of the log,
\* and no two replies are linked to the same user message
OneReplyPerSend(log, map) ==
  /\ \A i \in ReplyIdx(log) :
       /\ KeyAt(log, i) \in DOMAIN map
       /\ ~map[KeyAt(log, i)].isUserMessage
       /\ \E u \in UserIdx(log) : map[KeyAt(log, i)].replyToMessageId = KeyAt(log, u)
  /\ \A i, j \in ReplyIdx(log) :
       i # j => BoundTo(map, KeyAt(log, i)) # BoundTo(map, KeyAt(log, j))

OnlySendsAndReplies(log) == \A i \in Indices(log) : IsUser(log[i]) \/ IsRealReply(log[i])

RepliesUpTo(log, j) == Cardinality({i \in ReplyIdx(log) : i <= j})
SendsUpTo(log, j) == Cardinality({i \in UserIdx(log) : i <= j})

\* C3 as stated: a log of sends and real replies with no more replies than
\* sends binds every reply to exactly one user message, none twice.
C3_TotalCountSuffices ==
  (/\ OnlySendsAndReplies(messages)
   /\ Cardinality(ReplyIdx(messages)) <= Cardinality(UserIdx(messages)))
  => OneReplyPerSend(messages, useMessageCorrelation(messages, pendingMessages))

\* C3 amended: the same when, in addition, every reply comes after a send
\* that is still unanswered (no prefix of the log holds more replies than
\* sends) and no two replies carry the same message_id.
C3_OneReplyPerSend ==
  (/\ OnlySendsAndReplies(messages)
   /\ \A j \in Indices(messages) : RepliesUpTo(messages, j) <= SendsUpTo(messages, j)
   /\ \A i, j \in ReplyIdx(messages) : i # j => KeyAt(messages, i) # KeyAt(messages, j))
  => OneReplyPerSend(messages, useMessageCorrelation(messages, pendingMessages))

\* two sends answered in the other order: the reply to the 2nd send first
C3_Witness ==
  /\ Len(messages) = 4
  /\ IsUser(messages[1]) /\ IsUser(messages[2])
  /\ IsRealReply(messages[3]) /\ IsRealReply(messages[4])
  /\ messages[3].message_id = messages[2].message_id
  /\ messages[4].message_id = messages[1].message_id

NextQueue ==
  \/ IdsLeft /\ \E message \in Contents : sendMessage(message)
  \/ sendingTimerFires
  \/ errorTimerFires
  \/ Render
  \/ ClockBelow(MaxTicks) /\ Tick
  \/ onConnect
  \/ LogRoom /\ onDisconnect
  \/ LogRoom /\ onMessageDuplicate

SpecQueue == Init /\ [][NextQueue]_vars

\* a submit was accepted in this step: a temporary id was made
SubmitAccepted == nextId' = nextId + 1

\* the transport came up in this step
ConnectHandled == ~isConnected /\ isConnected'

\* C1: a submit made while the session is not connected emits nothing; a
\* connect event emits every entry of the offline queue once, in enqueue
\* order, and leaves the queue empty (so that no later connect event emits
\* an entry again).
C1_OfflineReplayExactlyOnce ==
  [][ /\ (~isConnected /\ SubmitAccepted) => emitted' = emitted
      /\ ConnectHandled =>
           /\ emitted' = emitted \o flushedEmits(offlineQueue)
           /\ offlineQueue' = <<>> ]_vars

\* C5: a submit whose normalized content equals that of the last accepted
\* submit, less than the cooldown after it, changes neither the log, the
\* pending set nor the offline queue and emits nothing; and once the
\* cooldown has expired neither guard of sendMessage rejects that content.
C5_ThrottleRejects ==
  \A m \in Contents :
    (/\ trim(m) # <<>>
     /\ normalize(m) = lastSentMessage
     /\ now - lastSentTime < DUPLICATE_SEND_THROTTLE_MS
     /\ sendMessage(m))
    => /\ UNCHANGED <<messages, pendingMessages, offlineQueue, emitted>>
       /\ ~SubmitAccepted

C5_AcceptedAfterCooldown ==
  \A m \in Contents :
    (/\ trim(m) # <<>>
     /\ normalize(m) = lastSentMessage
     /\ now - lastSentTime >= DUPLICATE_SEND_THROTTLE_MS)
    => /\ ~isThrottled(normalize(m))
       /\ ~isAlreadySending
       /\ ENABLED (sendMessage(m) /\ SubmitAccepted)

C5_Throttle == [][C5_ThrottleRejects]_vars /\ []C5_AcceptedAfterCooldown

\* a repeat was rejected (its error timer is still set) before the last
\* submit, which repeats the first one after the cooldown
C5_Witness ==
  /\ nextId = 3
  /\ \E i, j \in UserIdx(messages) :
       i < j /\ normalize(messages[i].content) = normalize(messages[j].content)
  /\ lastSentTime >= DUPLICATE_SEND_THROTTLE_MS
  /\ \E d \in errorTimers : d - ERROR_AUTO_CLEAR_MS < lastSentTime

\* the sending window of a connected submit: its timer has not run yet
InSendingWindow == sendingTimers # {}

\* C6: while a connected submit's sending window is open no further submit
\* is accepted, and a submit changes neither the log, the pending set nor
\* the offline queue.
C6_WindowRejectsEverySubmit ==
  [][ InSendingWindow =>
        /\ ~SubmitAccepted
        /\ \A m \in Contents :
             sendMessage(m) => UNCHANGED <<messages, pendingMessages, offlineQueue>> ]_vars

\* C8: every user message of the log has a PendingEntry (SpecQueue has no
\* reply, no error and no cancellation, so nothing resolves a message).
C8_EveryAcceptedMessageTracked ==
  \A i \in UserIdx(messages) : PendingHas(pendingMessages, messages[i].message_id)


\* --------------------------------------------------------------- SpecCancel
\* Cancelling: connected sends, replies, the cancel callbacks and the bulk
\* cancellation confirmation, whose count and optional text are the remote
\* peer's.
NextCancel ==
  \/ IdsLeft /\ \E message \in PlainContents : sendMessage(message)
  \/ sendingTimerFires
  \/ Render
  \/ ClockBelow(FewTicks) /\ Tick
  \/ onConnect
  \/ LogRoom /\ \E agent \in ReplyAgents, message_id \in IssuedIds \cup {NoId} :
       onResponse(agent, message_id)
  \/ CancelsLeft /\ \E messageId \in IssuedIds : cancelMessage(messageId)
  \/ CancelsLeft /\ cancelAllMessages
  \/ LogRoom /\ \E cancelled_count \in 0..MaxSends, hasMessage \in BOOLEAN :
       onAllMessagesCancelled(cancelled_count, hasMessage)

SpecCancel == Init /\ [][NextCancel]_vars

CancelAllRequested == \E k \in 1..Len(emitted) : emitted[k] = EmitCancelAll

\* the log gains exactly one message, a system notice with this text
OneNoticeAppended(text) ==
  /\ Len(messages') = Len(messages) + 1
  /\ SubSeq(messages', 1, Len(messages)) = messages
  /\ IsNotice(messages'[Len(messages')])
  /\ messages'[Len(messages')].content = text

CountText(count) == <<"Cancelled", ToString(count), "pending message(s)">>

\* C7 as stated: with K pending entries, the bulk confirmation that follows
\* a cancelAll request empties the pending set, clears the typing indicator
\* and appends exactly one system notice, which cites K.
C7_NoticeCitesPendingCount ==
  [][ \A cancelled_count \in 0..MaxSends, hasMessage \in BOOLEAN :
        (CancelAllRequested /\ onAllMessagesCancelled(cancelled_count, hasMessage))
        => /\ pendingMessages' = <<>>
           /\ isTyping' = FALSE
           /\ OneNoticeAppended(CountText(Len(pendingMessages))) ]_vars

\* C7 amended: ... and appends exactly one system notice, whose text is the
\* confirmation's own message when it carries one and otherwise cites the
\* confirmation's cancelled_count.
C7_NoticeCitesConfirmedCount ==
  [][ \A cancelled_count \in 0..MaxSends, hasMessage \in BOOLEAN :
        (CancelAllRequested /\ onAllMessagesCancelled(cancelled_count, hasMessage))
        => /\ pendingMessages' = <<>>
           /\ isTyping' = FALSE
           /\ OneNoticeAppended(IF hasMessage THEN ServerCancelText
                                ELSE CountText(cancelled_count)) ]_vars

\* two sends pending, cancelAll requested, the confirmation for 2 handled
C7_Witness ==
  /\ CancelAllRequested
  /\ Len(messages) = 3
  /\ IsUser(messages[1]) /\ IsUser(messages[2])
  /\ IsNotice(messages[3]) /\ messages[3].content = CountText(2)
  /\ pendingMessages = <<>>
  /\ ~isTyping

\* --------------------------------------------------------------- SpecTyping
\* The typing indicator: connected sends and every event that resolves a
\* pending message or reports typing.
NextTyping ==
  \/ IdsLeft /\ \E message \in PlainContents : sendMessage(message)
  \/ sendingTimerFires
  \/ Render
  \/ ClockBelow(FewTicks) /\ Tick
  \/ onConnect
  \/ LogRoom /\ \E message_id \in IssuedIds \cup {NoId} : onResponse("sales", message_id)
  \/ \E message_id \in IssuedIds : onError(message_id)
  \/ \E message_id \in IssuedIds, success \in BOOLEAN :
       onMessageCancelled(message_id, success)
  \/ \E is_typing \in BOOLEAN, message_id \in IssuedIds \cup {NoId} :
       onTyping(is_typing, message_id)

SpecTyping == Init /\ [][NextTyping]_vars

\* a reply, an error or a cancellation confirmation is handled in this step
ResolvingEvent ==
  \/ \E agent \in ReplyAgents, message_id \in EventIds : onResponse(agent, message_id)
  \/ \E message_id \in EventIds : onError(message_id)
  \/ \E message_id \in EventIds, success \in BOOLEAN :
       onMessageCancelled(message_id, success)

\* C9: when a reply, an error or a cancellation confirmation has been
\* handled and the pending set is empty, the typing indicator is false; and
\* after one connected send of m and the reply carrying m's id the log is
\* the user message and the reply, both numbered 1, the pending set is
\* empty and the typing indicator is false.
C9_IdleStopsTyping ==
  [][ /\ (ResolvingEvent /\ pendingMessages' = <<>>) => isTyping' = FALSE
      /\ \A agent \in ReplyAgents :
           (/\ Len(messages) = 1 /\ IsUser(messages[1])
            /\ PendingIds(pendingMessages) = <<messages[1].message_id>>
            /\ onResponse(agent, messages[1].message_id))
           => LET map == useMessageCorrelation(messages', pendingMessages')
              IN  /\ Len(messages') = 2
                  /\ map[KeyAt(messages', 1)].correlationNumber = 1
                  /\ map[KeyAt(messages', 2)].correlationNumber = 1
                  /\ pendingMessages' = <<>>
                  /\ isTyping' = FALSE ]_vars

\* C10: whenever the pending set is non-empty (in particular when an entry
\* has is_typing = true) the typing indicator is true.
C10_PendingImpliesTyping ==
  Len(pendingMessages) > 0 => isTyping


\* a cancellation request is emitted in this step
CancelEmitted ==
  /\ Len(emitted') = Len(emitted) + 1
  /\ emitted'[Len(emitted')].event \in {"cancel_message", "cancel_all_messages"}

\* an entry of the pending set is gone after this step
EntryRemoved == \E j \in 1..Len(pendingMessages) :
                  ~PendingHas(pendingMessages', pendingMessages[j].id)

\* C11: a cancellation request only emits: the step that emits it leaves
\* the pending set and the log (and the typing indicator) as they were, and
\* an entry leaves the pending set only in a step that handles an inbound
\* event (here a reply or the bulk confirmation), never in a request step.
C11_CancelIsOnlyARequest ==
  [][ /\ CancelEmitted =>
           /\ UNCHANGED <<messages, pendingMessages, isTyping>>
           /\ SubSeq(emitted', 1, Len(emitted)) = emitted
      /\ EntryRemoved =>
           /\ ~CancelEmitted
           /\ \/ \E agent \in ReplyAgents, message_id \in IssuedIds :
                   onResponse(agent, message_id)
              \/ \E cancelled_count \in 0..MaxSends, hasMessage \in BOOLEAN :
                   onAllMessagesCancelled(cancelled_count, hasMessage) ]_vars

\* a request for one message has been emitted and its entry, and the user
\* message, are still there
C11_Witness ==
  \E k \in 1..Len(emitted) :
    /\ emitted[k].event = "cancel_message"
    /\ PendingHas(pendingMessages, emitted[k].message_id)
    /\ \E i \in UserIdx(messages) : messages[i].message_id = emitted[k].message_id


\* --------------------------------------------------------------- SpecReject
\* Rejections and failures: submits, the cancel callbacks, the transport
\* going up and down, remote errors, timers, renders and the clock.
NextReject ==
  \/ IdsLeft /\ \E message \in PlainContents : sendMessage(message)
  \/ sendingTimerFires
  \/ errorTimerFires
  \/ Render
  \/ ClockBelow(MaxTicks) /\ Tick
  \/ onConnect
  \/ LogRoom /\ onDisconnect
  \/ CancelsLeft /\ \E messageId \in IssuedIds : cancelMessage(messageId)
  \/ CancelsLeft /\ cancelAllMessages
  \/ \E message_id \in IssuedIds \cup {NoId} : onError(message_id)

SpecReject == Init /\ [][NextReject]_vars

\* C12: while the session is not connected no cancellation request is
\* emitted (and a cancel callback that emits nothing changes nothing).
C12_NoCancelWhileDisconnected ==
  [][ ~isConnected =>
        /\ ~CancelEmitted
        /\ (cancelAllMessages \/ \E messageId \in IssuedIds : cancelMessage(messageId))
             => UNCHANGED <<emitted, messages, pendingMessages, offlineQueue,
                            isTyping, connVars>> ]_vars

\* C13: every rejected or failed operation leaves the transient error
\* non-empty: a submit rejected by the cooldown, a submit rejected by the
\* sending window, a cancel callback rejected for lack of a connection, and
\* a remote error event.
C13_EveryRejectionSignalled ==
  /\ \A m \in PlainContents :
       isThrottled(normalize(m)) => ~ENABLED (sendMessage(m) /\ error' = NoError)
  /\ \A m \in PlainContents :
       (~isThrottled(normalize(m)) /\ isAlreadySending)
         => ~ENABLED (sendMessage(m) /\ error' = NoError)
  /\ notConnected =>
       /\ ~ENABLED (cancelAllMessages /\ error' = NoError)
       /\ \A messageId \in IssuedIds :
            ~ENABLED (cancelMessage(messageId) /\ error' = NoError)
  /\ \A message_id \in IssuedIds \cup {NoId} :
       ~ENABLED (onError(message_id) /\ error' = NoError)


\* -------------------------------------------------------------- SpecSession
\* lib/socket.ts: the one socket of the module and the retained session id.
WireRoom == Len(wire) < MaxWire

NextSession ==
  \/ Len(returned) < MaxGets /\ Len(sockets) < MaxSockets /\ getSocket
  \/ WireRoom /\ authHandshake
  \/ WireRoom /\ \E session_id \in SessionIds : onConnected(session_id)
  \/ WireRoom /\ disconnectSocket

SpecSession == Init /\ [][NextSession]_vars

\* the session id a handshake at place k of the wire is to resume: the id
\* of the latest 'connected' event before it, none when disconnect() came
\* later than that event or no id was issued yet
RECURSIVE ResumableAt(_)
ResumableAt(k) ==
  IF k = 0 THEN <<>>
  ELSE IF wire[k].kind = "connected" THEN wire[k].payload
  ELSE IF wire[k].kind = "close" THEN <<>>
  ELSE ResumableAt(k - 1)

\* C14: every handshake submits the session id of the latest 'connected'
\* event, unless disconnect() was called since, and then (or when no id was
\* issued yet) it submits none; after disconnect() the retained id is empty.
C14_SessionResubmitted ==
  /\ \A k \in 1..Len(wire) :
       wire[k].kind = "auth" => wire[k].payload = ResumableAt(k - 1)
  /\ (wire # <<>> /\ wire[Len(wire)].kind = "close") => getStoredSessionId = NoSession
  /\ getStoredSessionId = IF ResumableAt(Len(wire)) = <<>> THEN NoSession
                          ELSE ResumableAt(Len(wire))[1]

\* an id was issued and resubmitted by a reconnection of the same socket,
\* disconnect() was called, and the next socket's handshake submitted none
C14_Witness ==
  \E s \in SessionIds :
    wire = << WireEntry("auth", 1, <<>>),
              WireEntry("connected", 1, <<s>>),
              WireEntry("auth", 1, <<s>>),
              WireEntry("close", 1, <<>>),
              WireEntry("auth", 2, <<>>) >>


\* the sockets made by io() on which disconnect() has not been called
OpenSockets == {k \in 1..Len(sockets) : ~sockets[k].disconnected}

\* a call of getSocket returns in this step
GetSocketReturns == Len(returned') = Len(returned) + 1

\* C18: at most one socket is open and it is the module's socket; every
\* socket has exactly one session-id handler; a getSocket call made while a
\* socket exists returns that socket and makes no socket and no handler; a
\* socket is made only when there is none (at first, or after disconnect()).
C18_OneOpenSocket ==
  /\ OpenSockets = IF socket = NoSocket THEN {} ELSE {socket}
  /\ \A k \in 1..Len(sockets) : sockets[k].connectedHandlers = 1

C18_GetSocketIdempotent ==
  /\ (GetSocketReturns /\ socket # NoSocket) =>
       /\ returned'[Len(returned')] = socket
       /\ UNCHANGED <<socket, sockets, wire>>
  /\ Len(sockets') > Len(sockets) =>
       /\ socket = NoSocket
       /\ \A k \in 1..Len(sockets) : sockets[k].disconnected

C18_SingleConnection == []C18_OneOpenSocket /\ [][C18_GetSocketIdempotent]_vars

\* two calls returned the first socket, and after disconnect() the third
\* call made and returned a second one
C18_Witness ==
  /\ returned = <<1, 1, 2>>
  /\ Len(sockets) = 2
  /\ sockets[1].disconnected /\ ~sockets[2].disconnected


\* ----------------------------------------------------------------- SpecConn
\* The connection life cycle: the transport's 'connect' and 'disconnect',
\* the manager's reconnection events, offline submits and renders.
NextConn ==
  \/ IdsLeft /\ \E message \in PlainContents : sendMessage(message)
  \/ sendingTimerFires
  \/ Render
  \/ ClockBelow(FewTicks) /\ Tick
  \/ onConnect
  \/ LogRoom /\ onDisconnect
  \/ LogRoom /\ \E attempt \in 1..MaxAttempt : onReconnect(attempt)
  \/ \E attempt \in 1..MaxAttempt : onReconnectAttempt(attempt)
  \/ onReconnectError
  \/ LogRoom /\ onReconnectFailed

SpecConn == Init /\ [][NextConn]_vars

\* the log gains exactly one message, a system notice of this kind
OneNoticeOfKind(mtype) ==
  /\ Len(messages') = Len(messages) + 1
  /\ SubSeq(messages', 1, Len(messages)) = messages
  /\ IsNotice(messages'[Len(messages')])
  /\ messages'[Len(messages')].mtype = mtype

\* C15 as stated: when the reconnect-success event has been handled the
\* session is observed as connected, the reconnecting flag is false, the
\* attempt counter is 0 and exactly one system notice was appended.
C15_ReconnectMarksConnected ==
  [][ \A attempt \in 1..MaxAttempt :
        onReconnect(attempt) =>
          /\ isConnected' = TRUE
          /\ isReconnecting' = FALSE
          /\ reconnectAttempt' = 0
          /\ OneNoticeOfKind("reconnection") ]_vars

\* C15 amended: when the reconnect-success event has been handled the
\* reconnecting flag is false, the attempt counter is 0, exactly one system
\* notice was appended and the connection flag is as it was; the session is
\* observed as connected (with the flag false and the counter 0) when the
\* transport's connect event has been handled.
C15_ReconnectClearsCounter ==
  [][ /\ \A attempt \in 1..MaxAttempt :
           onReconnect(attempt) =>
             /\ isReconnecting' = FALSE
             /\ reconnectAttempt' = 0
             /\ OneNoticeOfKind("reconnection")
             /\ isConnected' = isConnected
      /\ onConnect =>
           /\ isConnected' = TRUE
           /\ isReconnecting' = FALSE
           /\ reconnectAttempt' = 0 ]_vars

\* an attempt was reported, then the reconnect-success event was handled:
\* its notice is the last message, the counter is 0, and the session is not
\* yet observed as connected
C15_Witness ==
  /\ error \in {ERR_RECONNECTING(attempt) : attempt \in 1..MaxAttempt}
  /\ messages # <<>>
  /\ messages[Len(messages)] \in {ReconnectedNotice(attempt) : attempt \in 1..MaxAttempt}
  /\ reconnectAttempt = 0
  /\ ~isReconnecting
  /\ ~isConnected


\* the correlation number shown for the message at place i of a log: the
\* number of the record under the message's key
NumberOf(map, log, i) ==
  IF KeyAt(log, i) \in DOMAIN map THEN map[KeyAt(log, i)].correlationNumber ELSE 0

\* C16: when messages are appended to the log (or entries added to the
\* pending set), every user message already in the log keeps its
\* correlation number.
C16_NumbersStable ==
  [][ \A i \in UserIdx(messages) :
        NumberOf(useMessageCorrelation(messages', pendingMessages'), messages', i)
          = NumberOf(useMessageCorrelation(messages, pendingMessages), messages, i) ]_vars


\* ------------------------------------------------------------------ SpecLog
\* The log under every user action and every inbound event of the hook
\* (time stands still: the timers and the clock do not touch the log).
ShortLogRoom == Len(messages) < ShortLog

NextLog ==
  \/ nextId <= LogSends /\ \E message \in PlainContents : sendMessage(message)
  \/ clearMessages
  \/ CancelsLeft /\ \E messageId \in IssuedIds : cancelMessage(messageId)
  \/ CancelsLeft /\ cancelAllMessages
  \/ Render
  \/ Len(emitted) < MaxEmits /\ onConnect
  \/ ShortLogRoom /\ onDisconnect
  \/ ShortLogRoom /\ onReconnect(1)
  \/ onReconnectAttempt(1)
  \/ onReconnectError
  \/ ShortLogRoom /\ onReconnectFailed
  \/ \E message_id \in IssuedIds : onMessageQueued(message_id, 1)
  \/ ShortLogRoom /\ \E message_id \in IssuedIds \cup {NoId} : onResponse("sales", message_id)
  \/ \E is_typing \in BOOLEAN : onTyping(is_typing, NoId)
  \/ ShortLogRoom /\ \E message_id \in IssuedIds \cup {NoId} : onAgentSwitch("sales", message_id)
  \/ \E message_id \in IssuedIds \cup {NoId} : onError(message_id)
  \/ \E message_id \in IssuedIds : onMessageCancelled(message_id, TRUE)
  \/ ShortLogRoom /\ onAllMessagesCancelled(1, FALSE)
  \/ ShortLogRoom /\ onMessageDuplicate

SpecLog == Init /\ [][NextLog]_vars

IsPrefix(s, t) == Len(s) <= Len(t) /\ SubSeq(t, 1, Len(s)) = s

\* s is t with some entries left out, the others in the same order
RECURSIVE IsSubsequence(_, _)
IsSubsequence(s, t) ==
  IF s = <<>> THEN TRUE
  ELSE IF t = <<>> THEN FALSE
  ELSE IF Head(s) = Head(t) THEN IsSubsequence(Tail(s), Tail(t))
  ELSE IsSubsequence(s, Tail(t))

\* a single-message cancellation confirmation or clearMessages runs in this step
RemovalStep ==
  \/ clearMessages
  \/ \E message_id \in IssuedIds, success \in BOOLEAN :
       onMessageCancelled(message_id, success)

\* C17: every step other than a cancellation confirmation and
\* clearMessages leaves the entries of the log as they are, in their order,
\* and at most adds entries at the end; the two exceptions only remove
\* entries.  No entry is ever reordered or modified.
C17_LogAppendOnly ==
  [][ \/ IsPrefix(messages, messages')
      \/ RemovalStep /\ IsSubsequence(messages', messages) ]_vars

\* two notices, then a submit appended the user message and its notice
C17_Witness ==
  /\ Len(messages) = 4
  /\ IsNotice(messages[1]) /\ IsNotice(messages[2])
  /\ IsUser(messages[3]) /\ IsNotice(messages[4])


\* the temporary ids of the messages handed to the transport / still queued
EmittedIds == {emitted[k].message_id : k \in {j \in 1..Len(emitted) : emitted[j].event = "message"}}
QueuedIds == {offlineQueue[k].message_id : k \in 1..Len(offlineQueue)}

\* C19: no submitted message is lost: every user message of the log is in
\* the offline queue or was emitted to the transport (the flush clears no
\* entry it did not emit).
C19_NoOfflineMessageLost ==
  \A i \in UserIdx(messages) :
    messages[i].message_id \in QueuedIds \cup EmittedIds


\* ----------------------------------------------------------------- SpecRace
\* A reply racing a cancellation: connected sends, a cancel request, and
\* the inbound events that write the pending set.
NextRace ==
  \/ IdsLeft /\ \E message \in PlainContents : sendMessage(message)
  \/ sendingTimerFires
  \/ Render
  \/ ClockBelow(FewTicks) /\ Tick
  \/ onConnect
  \/ CancelsLeft /\ \E messageId \in IssuedIds : cancelMessage(messageId)
  \/ LogRoom /\ \E message_id \in IssuedIds : onResponse("sales", message_id)
  \/ \E message_id \in IssuedIds, success \in BOOLEAN :
       onMessageCancelled(message_id, success)
  \/ \E message_id \in IssuedIds : onMessageQueued(message_id, 1)
  \/ \E message_id \in IssuedIds : onTyping(TRUE, message_id)

SpecRace == Init /\ [][NextRace]_vars

PendingIdSet(p) == {p[j].id : j \in 1..Len(p)}

\* C20: handling the reply for m, or the cancellation confirmation for m,
\* takes the entry of m out of the pending set and no other entry, in
\* whichever order the two are handled; and no inbound event puts an entry
\* into the pending set (only a submit makes one, under a new id), so the
\* entry of m is not re-created.
C20_ReplyCancelRace ==
  [][ /\ \A m \in IssuedIds :
           (\/ \E agent \in ReplyAgents : onResponse(agent, m)
            \/ \E success \in BOOLEAN : onMessageCancelled(m, success))
           => pendingMessages' = SelectSeq(pendingMessages, LAMBDA e : e.id # m)
      /\ ~SubmitAccepted => PendingIdSet(pendingMessages') \subseteq PendingIdSet(pendingMessages) ]_vars

\* a cancel request for message 1 was emitted; its confirmation was handled
\* first (the user message is gone from the log) and its reply second (the
\* reply is in the log); the entry of message 2 is the only one left
C20_Witness ==
  /\ \E k \in 1..Len(emitted) : emitted[k] = EmitCancel(1)
  /\ PendingIds(pendingMessages) = <<2>>
  /\ \A i \in UserIdx(messages) : messages[i].message_id # 1
  /\ \E i \in ReplyIdx(messages) : messages[i].message_id = 1

\* ------------------------------------------------------ reply versus cancel
CancelOutstanding(m) ==
  /\ PendingHas(pendingMessages, m)
  /\ \E k \in 1..Len(emitted) : emitted[k] = EmitCancel(m)

\* C21: for a pending message m with a cancel request outstanding, the log
\* after handling the reply for m and the cancellation confirmation for m
\* is the same whichever of the two is handled first.
C21_ReplyCancelCommute ==
  \A m \in IssuedIds :
    CancelOutstanding(m) =>
      \A agent \in ReplyAgents :
        removeMessage(responseLog(messages, agent, m), m)
          = responseLog(removeMessage(messages, m), agent, m)

\* ------------------------------------------- matching after a resolution
\* the user message at index i was tracked, its entry is gone, it is still
\* in the log and no reply in the log carries its id: an error event or the
\* cancel-all confirmation resolved it
ResolvedUnanswered(i) ==
  /\ IsUser(messages[i])
  /\ messages[i].message_id \in EmittedIds
  /\ ~PendingHas(pendingMessages, messages[i].message_id)
  /\ \A r \in ReplyIdx(messages) : messages[r].message_id # messages[i].message_id

\* C22: a user message resolved by an error event or by the cancel-all
\* confirmation is not an unanswered question any more: when the reply to
\* a user message submitted after it is handled, the matching pass binds
\* that reply to the later message.
C22_ResolvedNotMatched ==
  [][ \A i, j \in UserIdx(messages) :
        (/\ ResolvedUnanswered(i)
         /\ i < j
         /\ \E agent \in ReplyAgents : onResponse(agent, messages[j].message_id))
        => BoundTo(useMessageCorrelation(messages', pendingMessages'),
                   KeyAt(messages', Len(messages')))
             = KeyAt(messages, j) ]_vars

\* C23: the key of every user message of the log maps to a user record (no
\* reply-to link) whose number is the message's rank among the user
\* messages of the log, also when a reply carries the same message_id.
C23_UserKeysNumberedByRank ==
  LET map == useMessageCorrelation(messages, pendingMessages)
  IN  \A i \in UserIdx(messages) :
        /\ KeyAt(messages, i) \in DOMAIN map
        /\ map[KeyAt(messages, i)].isUserMessage
        /\ map[KeyAt(messages, i)].replyToMessageId = NoKey
        /\ map[KeyAt(messages, i)].correlationNumber = SendsUpTo(messages, i)

\* -------------------------------------------------------------- SpecPending
\* The pending set: connected and offline sends, clearing the history, and
\* every inbound event that reads or writes a PendingEntry.
QueuePosition == 3

NextPending ==
  \/ IdsLeft /\ \E message \in PlainContents : sendMessage(message)
  \/ sendingTimerFires
  \/ Render
  \/ ClockBelow(FewTicks) /\ Tick
  \/ onConnect
  \/ clearMessages
  \/ LogRoom /\ \E message_id \in IssuedIds \cup {NoId} : onResponse("sales", message_id)
  \/ \E message_id \in IssuedIds \cup {NoId} : onError(message_id)
  \/ \E message_id \in IssuedIds, success \in BOOLEAN :
       onMessageCancelled(message_id, success)
  \/ LogRoom /\ onAllMessagesCancelled(1, FALSE)
  \/ \E message_id \in IssuedIds : onMessageQueued(message_id, QueuePosition)
  \/ \E is_typing \in BOOLEAN, message_id \in IssuedIds \cup {NoId} :
       onTyping(is_typing, message_id)

SpecPending == Init /\ [][NextPending]_vars

\* C24: every key of the pending set is the message_id of a user message
\* of the log, and no two entries of the pending set have the same key.
C24_PendingKeysInLog ==
  /\ \A j \in 1..Len(pendingMessages) :
       \E i \in UserIdx(messages) : messages[i].message_id = pendingMessages[j].id
  /\ \A j, k \in 1..Len(pendingMessages) :
       j # k => pendingMessages[j].id # pendingMessages[k].id

\* two tracked sends, the first taken out of the log and of the pending
\* set by its cancellation confirmation
C24_Witness ==
  /\ EmittedIds = {1, 2}
  /\ PendingIds(pendingMessages) = <<2>>
  /\ {messages[i].message_id : i \in UserIdx(messages)} = {2}
  /\ ReplyIdx(messages) = {}

\* --------------------------------------------- effects of single events
\* (checked under SpecTyping, where two tracked sends meet replies, errors,
\* cancellation confirmations and typing events)
CancelledHandled(m) == \E success \in BOOLEAN : onMessageCancelled(m, success)

\* C25: handling the cancellation confirmation for m leaves no entry for m
\* in the pending set and no user message with id m in the log; every other
\* entry, and every log message with another id or with none, is kept, the
\* kept log messages in their previous order.
C25_CancelledRemovesOnlyM ==
  [][ \A m \in IssuedIds :
        CancelledHandled(m) =>
          /\ ~PendingHas(pendingMessages', m)
          /\ \A i \in UserIdx(messages') : messages'[i].message_id # m
          /\ pendingMessages' = SelectSeq(pendingMessages, LAMBDA e : e.id # m)
          /\ messages' = SelectSeq(messages, LAMBDA msg : msg.message_id # m) ]_vars

\* the confirmation for message 1 has been handled; the entry and the user
\* message of 2 and a reply without an id are kept, in order
C25_Witness ==
  /\ EmittedIds = {1, 2}
  /\ PendingIds(pendingMessages) = <<2>>
  /\ Len(messages) = 2
  /\ IsUser(messages[1]) /\ messages[1].message_id = 2
  /\ IsRealReply(messages[2]) /\ messages[2].message_id = NoId

\* C26: a cancellation confirmation with success = false changes the
\* pending set, the log and the typing indicator exactly as one with
\* success = true does: the entry and the message are removed either way.
C26_SuccessFlagIgnored ==
  [][ \A m \in IssuedIds :
        /\ onMessageCancelled(m, FALSE) <=> onMessageCancelled(m, TRUE)
        /\ onMessageCancelled(m, FALSE) =>
             /\ ~PendingHas(pendingMessages', m)
             /\ \A i \in Indices(messages') : messages'[i].message_id # m ]_vars

\* one tracked send taken back by its confirmation: nothing pending, the
\* log empty, the typing indicator off and no error shown
C26_Witness ==
  /\ EmittedIds = {1}
  /\ nextId = 2
  /\ pendingMessages = <<>>
  /\ messages = <<>>
  /\ ~isTyping
  /\ error = NoError

\* C27: an error event sets the transient error to its text and leaves the
\* log alone; with a message_id m it removes the entry for m, if there is
\* one, and no other entry; without a message_id it removes no entry.
C27_ErrorResolvesOnlyM ==
  [][ \A m \in IssuedIds \cup {NoId} :
        onError(m) =>
          /\ error' = ServerErrorText
          /\ messages' = messages
          /\ pendingMessages' =
               IF m = NoId THEN pendingMessages
               ELSE SelectSeq(pendingMessages, LAMBDA e : e.id # m) ]_vars

\* the error for message 1 has been handled: its text is shown, the entry
\* of 2 is left, both user messages are in the log
C27_Witness ==
  /\ error = ServerErrorText
  /\ PendingIds(pendingMessages) = <<2>>
  /\ Len(messages) = 2
  /\ {messages[i].message_id : i \in UserIdx(messages)} = {1, 2}

\* the effect the connected path of sendMessage has on the log, the pending
\* set, the transport and the typing indicator, for the content message
ConnectedSubmitEffect(message) ==
  /\ \A i \in Indices(messages) : messages[i].message_id # nextId
  /\ ~PendingHas(pendingMessages, nextId)
  /\ messages' = Append(messages, UserMessage(message, nextId))
  /\ pendingMessages' =
       Append(pendingMessages,
              [id |-> nextId, message |-> message, status |-> "sending",
               sent_at |-> now, is_typing |-> FALSE, queue_position |-> 0])
  /\ emitted' = Append(emitted, EmitMessage(message, nextId))
  /\ isTyping'

\* C28: a submit accepted while the session is connected appends one user
\* message with a fresh id to the log, adds one entry under that id with
\* status sending and is_typing false, emits one message and turns the
\* typing indicator on; the entries there were are unchanged.
C28_ConnectedSubmitTracks ==
  [][ (isConnected /\ SubmitAccepted)
        => \E message \in PlainContents : ConnectedSubmitEffect(message) ]_vars

\* ------------------------------------------------ the queued acknowledgment
\* (checked under SpecPending)
\* the entry e after the acknowledgment with position p
MarkedQueued(e, p) == [e EXCEPT !.status = "queued", !.queue_position = p]

\* a step that handles the acknowledgment for m changes the entry of m as
\* MarkedQueued says and no other entry
C29_QueuedAckStep ==
  \A m \in IssuedIds :
    onMessageQueued(m, QueuePosition) =>
      /\ Len(pendingMessages') = Len(pendingMessages)
      /\ \A j \in 1..Len(pendingMessages) :
           pendingMessages'[j] =
             IF pendingMessages[j].id = m
             THEN MarkedQueued(pendingMessages[j], QueuePosition)
             ELSE pendingMessages[j]

\* without an entry for m the acknowledgment cannot change the pending set
C29_QueuedAckNoEntry ==
  \A m \in IssuedIds :
    ~PendingHas(pendingMessages, m) =>
      ~ENABLED (onMessageQueued(m, QueuePosition) /\ pendingMessages' # pendingMessages)

\* C29: the queued acknowledgment for m with position p sets the entry of m
\* to status queued and queue_position p and leaves its content, sent_at
\* and is_typing, and every other entry, as they are; when there is no
\* entry for m the pending set is unchanged and no entry is made.
C29_QueuedAck == []C29_QueuedAckNoEntry /\ [][C29_QueuedAckStep]_vars

\* the entry of message 1 acknowledged as queued after a typing event for
\* it, the entry of message 2 untouched
C29_Witness ==
  /\ Len(pendingMessages) = 2
  /\ pendingMessages[1].id = 1
  /\ pendingMessages[1].status = "queued"
  /\ pendingMessages[1].queue_position = QueuePosition
  /\ pendingMessages[1].is_typing
  /\ pendingMessages[2].id = 2
  /\ pendingMessages[2].status = "sending"

\* the entry of the pending map p under id
EntryOf(p, id) == p[CHOOSE j \in 1..Len(p) : p[j].id = id]

\* C30: as long as an entry stays in the pending set its status changes
\* only from sending to queued, never back, and its content and sent_at
\* stay as they were set when the entry was made (status sending, sent_at
\* the time of the submit).
C30_StatusOnlyForward ==
  [][ \A m \in PendingIdSet(pendingMessages') :
        IF m \in PendingIdSet(pendingMessages)
        THEN LET old == EntryOf(pendingMessages, m)
                 new == EntryOf(pendingMessages', m)
             IN  /\ new.status \in {old.status, "queued"}
                 /\ new.message = old.message
                 /\ new.sent_at = old.sent_at
        ELSE LET new == EntryOf(pendingMessages', m)
             IN  new.status = "sending" /\ new.sent_at = now ]_vars

\* one second after its submit the entry of message 1 is queued and has had
\* a typing event, with the submit's time; the entry of message 2 was made
\* then
C30_Witness ==
  /\ now = TickMs
  /\ Len(pendingMessages) = 2
  /\ pendingMessages[1].status = "queued"
  /\ pendingMessages[1].sent_at = 0
  /\ pendingMessages[1].is_typing
  /\ pendingMessages[2].sent_at = TickMs

\* ------------------------------------------------------ the connect flush
\* C31: a connect event that finds q > 0 entries in the offline queue
\* appends one system notice reporting q to the log, in the step that
\* dispatches the entries and not after it; a connect event that finds the
\* queue empty appends no notice and dispatches nothing.
C31_FlushNoticeCitesQueue ==
  [][ ConnectHandled =>
        IF Len(offlineQueue) > 0
        THEN messages' = Append(messages, ReconnectFlushNotice(Len(offlineQueue)))
        ELSE messages' = messages /\ emitted' = emitted ]_vars

\* ---------------------------------------------------------------- SpecFrame
\* Who writes the offline queue and the retained session id: the hook is
\* mounted (getSocket), the socket's first handshake and the session
\* announcement take place, and on the mounted hook submits, the cancel
\* callbacks, renders, connect / disconnect and every inbound message event
\* are handled.
Mounted == socket # NoSocket
Handshaken == \E k \in 1..Len(wire) : wire[k].kind = "auth"

NextFrame ==
  \/ ~Mounted /\ getSocket
  \/ wire = <<>> /\ authHandshake
  \/ sessionId = NoSession /\ onConnected("s1")
  \/ Mounted /\ nextId <= LogSends /\ \E message \in PlainContents : sendMessage(message)
  \/ Mounted /\ Render
  \/ Handshaken /\ Len(emitted) < MaxEmits /\ onConnect
  \/ Mounted /\ LogRoom /\ onDisconnect
  \/ Mounted /\ CancelsLeft /\ \E messageId \in IssuedIds : cancelMessage(messageId)
  \/ Mounted /\ CancelsLeft /\ cancelAllMessages
  \/ Mounted /\ \E message_id \in IssuedIds : onMessageQueued(message_id, QueuePosition)
  \/ Mounted /\ LogRoom /\ \E message_id \in IssuedIds : onResponse("sales", message_id)
  \/ Mounted /\ \E message_id \in IssuedIds : onTyping(TRUE, message_id)
  \/ Mounted /\ LogRoom /\ \E message_id \in IssuedIds : onAgentSwitch("sales", message_id)
  \/ Mounted /\ \E message_id \in IssuedIds : onError(message_id)
  \/ Mounted /\ \E message_id \in IssuedIds : onMessageCancelled(message_id, TRUE)
  \/ Mounted /\ LogRoom /\ onAllMessagesCancelled(1, FALSE)
  \/ Mounted /\ LogRoom /\ onMessageDuplicate

SpecFrame == Init /\ [][NextFrame]_vars

\* a reply, typing, error, queued-ack, message-cancelled, all-cancelled,
\* hand-off or duplicate event is handled, or cancelOne / cancelAll is
\* called, in this step
MessageEventOrCancel ==
  \/ \E agent \in ReplyAgents, message_id \in EventIds : onResponse(agent, message_id)
  \/ \E is_typing \in BOOLEAN, message_id \in EventIds : onTyping(is_typing, message_id)
  \/ \E message_id \in EventIds : onError(message_id)
  \/ \E message_id \in EventIds : onMessageQueued(message_id, QueuePosition)
  \/ \E message_id \in EventIds, success \in BOOLEAN : onMessageCancelled(message_id, success)
  \/ \E hasMessage \in BOOLEAN : onAllMessagesCancelled(1, hasMessage)
  \/ \E to_agent \in ReplyAgents, message_id \in EventIds : onAgentSwitch(to_agent, message_id)
  \/ onMessageDuplicate
  \/ \E messageId \in IssuedIds : cancelMessage(messageId)
  \/ cancelAllMessages

ResolvedNow(m) ==
  \/ \E agent \in ReplyAgents : onResponse(agent, m)
  \/ onError(m)
  \/ \E success \in BOOLEAN : onMessageCancelled(m, success)
  \/ \E hasMessage \in BOOLEAN : onAllMessagesCancelled(1, hasMessage)

ObservedState ==
  { st \in {"connected", "reconnecting", "disconnected"} :
      \/ st = "connected" /\ isConnected
      \/ st = "reconnecting" /\ isReconnecting
      \/ st = "disconnected" /\ ~isConnected /\ ~isReconnecting }

\* C34: the connected flag and the reconnecting flag are never both true,
\* and the attempt counter is 0 whenever the connected flag is true; so the
\* caller observes exactly one of connected, reconnecting, disconnected.
C34_OneConnectionState ==
  /\ ~(isConnected /\ isReconnecting)
  /\ isConnected => reconnectAttempt = 0
  /\ Cardinality(ObservedState) = 1

\* the session went down and a later reconnection attempt is in progress:
\* reconnecting, not connected, the counter at the attempt's number
C34_Witness ==
  /\ isReconnecting
  /\ ~isConnected
  /\ reconnectAttempt = MaxAttempt
  /\ \E i \in Indices(messages) : messages[i].mtype = "disconnection"

\* -------------------------------------------------------------- SpecSending
\* The sending flag: the events of SpecQueue, with the event loop running
\* due timers, React committing scheduled renders and time passing.  A
\* submit is made while the clock can still reach the end of its sending
\* window.
NextSending ==
  \/ IdsLeft /\ ClockBelow(MaxTicks) /\ \E message \in Contents : sendMessage(message)
  \/ sendingTimerFires
  \/ errorTimerFires
  \/ Render
  \/ ClockBelow(MaxTicks) /\ Tick
  \/ onConnect
  \/ LogRoom /\ onDisconnect
  \/ LogRoom /\ onMessageDuplicate

SpecSending ==
  /\ Init
  /\ [][NextSending]_vars
  /\ WF_vars(sendingTimerFires)
  /\ WF_vars(errorTimerFires)
  /\ WF_vars(Render)
  /\ WF_vars(ClockBelow(MaxTicks) /\ Tick)

\* C35: whenever the sending flag is true it becomes false again by the
\* timers and renders alone, and so does the flag the in-flight guard of
\* submit reads: submit is not blocked forever.
C35_SendingFlagClears ==
  /\ isSending ~> ~isSending
  /\ isAlreadySending ~> ~isAlreadySending

\* a connected submit whose sending window ended by its timer: sent, one
\* window later, no timer left, the flag false and no duplicate notice
C35_Witness ==
  /\ ~isSending
  /\ ~isAlreadySending
  /\ sendingTimers = {}
  /\ Len(emitted) = 1
  /\ offlineQueue = <<>> /\ Len(messages) = 1
  /\ now = lastSentTime + SENDING_STATE_DURATION_MS

\* C36: the auto-clear timer of a throttle rejection erases the 'too fast'
\* notice only: when it fires while another transient error is shown, that
\* error stays.
C36_AutoClearOnlyTooFast ==
  [][ (errorTimerFires /\ error # ERR_SEND_TOO_FAST) => error' = error ]_vars

\* the offline-queue entries whose user message is no longer in the log
QueuedOutOfLog ==
  {k \in 1..Len(offlineQueue) :
     \A i \in UserIdx(messages) : messages[i].message_id # offlineQueue[k].message_id}

\* what clearMessages does and what it leaves alone
ClearHistoryEffect ==
  /\ messages' = <<>>
  /\ pendingMessages' = <<>>
  /\ currentAgent' = NoAgent
  /\ error' = NoError
  /\ UNCHANGED <<offlineQueue, connVars, sessionId, isTyping, isSending>>

\* C37: clearHistory empties the log and the pending set, resets the
\* current agent and the transient error and leaves the offline queue, the
\* connection state, the session id, the typing indicator and the sending
\* flag as they are; a message queued offline whose history was cleared is
\* dispatched by the next connect event.
C37_ClearHistoryKeepsQueue ==
  [][ /\ clearMessages => ClearHistoryEffect
      /\ ConnectHandled =>
           \A k \in QueuedOutOfLog :
             \E e \in (Len(emitted) + 1)..Len(emitted') :
               emitted'[e] = EmitMessage(offlineQueue[k].message, offlineQueue[k].message_id) ]_vars

\* ----------------------------------------------- correlation: third pass
\* (SpecCorr; the pending set holds ids of the log, the remote peer's id
\* and the id the next user message will get)
LogKeys(log) == {KeyAt(log, i) : i \in Indices(log)}

\* the pending ids that are the key of no log message, in insertion order
PendingOutOfLog ==
  SelectSeq(PendingIds(pendingMessages), LAMBDA id : <<"id", id>> \notin LogKeys(messages))

\* the records the first two passes derive from the log
LogRecords == useMessageCorrelation(messages, <<>>)

\* the pending ids without a record from the log, in insertion order
PendingUnrecorded ==
  SelectSeq(PendingIds(pendingMessages), LAMBDA id : <<"id", id>> \notin DOMAIN LogRecords)

NextAgent ==
  \/ nextId <= LogSends /\ \E message \in PlainContents : sendMessage(message)
  \/ clearMessages
  \/ CancelsLeft /\ \E messageId \in IssuedIds : cancelMessage(messageId)
  \/ Render
  \/ Len(emitted) < MaxEmits /\ onConnect
  \/ ShortLogRoom /\ onDisconnect
  \/ LogRoom /\ \E agent \in ReplyAgents, message_id \in IssuedIds \cup {NoId} :
       onResponse(agent, message_id)
  \/ LogRoom /\ \E to_agent \in ReplyAgents, message_id \in IssuedIds \cup {NoId} :
       onAgentSwitch(to_agent, message_id)
  \/ \E message_id \in IssuedIds : onError(message_id)
  \/ \E message_id \in IssuedIds : onMessageCancelled(message_id, TRUE)

SpecAgent == Init /\ [][NextAgent]_vars

\* a reply of the agent, or a hand-off to the agent, is handled in this step
AgentEvent(tag) ==
  \/ \E message_id \in EventIds : onResponse(tag, message_id)
  \/ \E message_id \in EventIds : onAgentSwitch(tag, message_id)

\* this step appends exactly one message to the log
AppendsOne ==
  /\ Len(messages') = Len(messages) + 1
  /\ SubSeq(messages', 1, Len(messages)) = messages

\* the message this step appends
Appended == messages'[Len(messages')]

\* C39: the current agent is empty at start; the step that handles a reply
\* or a hand-off sets it to the reply's agent tag or the hand-off's to-tag
\* (also read off the message the step appends to the log), clearHistory
\* empties it, and no other step changes it, so that it always is the tag
\* of the reply or hand-off handled last since start or the last
\* clearHistory; a hand-off appends exactly one system notice to the log.
C39_AgentStep ==
  /\ \A tag \in ReplyAgents : AgentEvent(tag) => currentAgent' = tag
  /\ clearMessages => currentAgent' = NoAgent
  /\ (~clearMessages /\ \A tag \in ReplyAgents : ~AgentEvent(tag))
       => currentAgent' = currentAgent
  /\ (AppendsOne /\ IsRealReply(Appended)) => currentAgent' = Appended.agent
  /\ (AppendsOne /\ Appended.mtype = "agent_switch")
       => currentAgent' = Appended.content[2]
  /\ \A tag \in ReplyAgents, message_id \in EventIds :
       onAgentSwitch(tag, message_id) => AppendsOne /\ IsNotice(Appended)

C39_CurrentAgentFollowsLastEvent ==
  /\ currentAgent = NoAgent
  /\ [][C39_AgentStep]_vars

\* a reply of sales, then a hand-off to support, have been handled
C39_Witness ==
  /\ Len(messages) = 2
  /\ IsRealReply(messages[1]) /\ messages[1].agent = "sales"
  /\ IsNotice(messages[2]) /\ messages[2].mtype = "agent_switch"
  /\ messages[2].content[2] = "support"
  /\ currentAgent = "support"

\* ------------------------------------------------------ correlation: colors
\* (SpecCorr; MESSAGE_CORRELATION.COLORS has six entries, all different)
ColorNumbers == 1..MaxColorNumber

\* the palette entry at the zero-based index i
PaletteEntry(i) == COLORS[i + 1]

\* C40: the color of a record with number n >= 1 is the palette entry at
\* index (n - 1) mod 6; a bound reply has the color that the map gives to
\* the key of its user message; two numbers have the same color exactly
\* when they are congruent modulo 6.
C40_ColorCyclesByNumber ==
  LET map == useMessageCorrelation(messages, pendingMessages)
  IN  /\ Len(COLORS) = 6
      /\ \A n \in ColorNumbers :
           getCorrelationColor(n) = PaletteEntry((n - 1) % 6)
      /\ \A n \in ColorNumbers, m \in ColorNumbers :
           (getCorrelationColor(n) = getCorrelationColor(m)) <=> (n % 6 = m % 6)
      /\ \A k \in DOMAIN map :
           /\ map[k].correlationNumber >= 1
           /\ map[k].color = PaletteEntry((map[k].correlationNumber - 1) % 6)
      /\ \A k \in DOMAIN map :
           map[k].replyToMessageId # NoKey
             => /\ map[k].replyToMessageId \in DOMAIN map
                /\ map[k].color = map[map[k].replyToMessageId].color
      /\ \A k \in DOMAIN map, l \in DOMAIN map :
           (map[k].color = map[l].color)
             <=> (map[k].correlationNumber % 6 = map[l].correlationNumber % 6)

====
